---- MODULE Spec2Model ----
(***************************************************************************)
(* A model of the music-video pipeline of wan2gp-operator-skill:           *)
(*   scripts/music_analyze.py          (beat grid, sections)               *)
(*   scripts/music_plan.py             (shot planner)                      *)
(*   scripts/music_assemble_ffmpeg.py  (best take, clip list, assembly)    *)
(*                                                                         *)
(* Times are integers counted in ticks of 1e-5 s, one decimal finer than   *)
(* the 4 decimals the scripts round to, so that round(x, 4) is a real      *)
(* operation on the values of the model.  Floating-point arithmetic is     *)
(* idealised as exact arithmetic on these ticks.                           *)
(***************************************************************************)
EXTENDS Integers, Sequences, FiniteSets, TLC

VARIABLES
    analysis,    \* music_plan: the loaded analysis JSON (the planner's input)
    args,        \* music_plan: the parsed command line
    pc,          \* music_plan: position inside _build_shots
    beats,       \* music_plan: _build_shots' local `beats`
    beat_sec,    \* music_plan: _build_shots' local `beat_sec`
    rng,         \* music_plan: state of the local random.Random(seed)
    cursor,      \* music_plan: _build_shots' local `cursor`
    shot_index,  \* music_plan: _build_shots' local `shot_index`
    shots,       \* music_plan: _build_shots' local `shots`
    swept,       \* music_plan: `shots` as the forward sweep left it (history)
    run,         \* music_plan: 1 in the first call of _build_shots, 2 in a repeated call
    first_plan,  \* music_plan: the list the first call returned (history)
    analysis_found, \* music_plan: whether the --analysis file exists
    plan_file,   \* music_plan: the plan file, <<>> until it is written
    plan_rc,     \* music_plan: main's return value, -1 while it runs
    an_in,       \* music_analyze: command line, probe answer, detector answer
    an_pc,       \* music_analyze: position inside main
    an_analysis, \* music_analyze: main's locals `analysis` and `warnings`
    an_file,     \* music_analyze: the analysis file, <<>> until it is written
    an_rc,       \* music_analyze: main's return value, -1 while it runs
    bt_takes,    \* music_assemble_ffmpeg: the argument of one _best_take call
    bt_disk,     \* music_assemble_ffmpeg: the video files that exist on disk
    bt_pc,       \* music_assemble_ffmpeg: "call" before, "returned" after that call
    bt_result,   \* music_assemble_ffmpeg: what the call returned, <<>> for None
    asm_in,      \* music_assemble_ffmpeg: manifest, disk, command line, environment
    asm_pc,      \* music_assemble_ffmpeg: position inside main
    clip_paths,  \* music_assemble_ffmpeg: main's local `clip_paths`
    normalized_files, \* music_assemble_ffmpeg: main's local `normalized_files`
    concat_list, \* music_assemble_ffmpeg: the lines of concat_list.txt
    commands,    \* music_assemble_ffmpeg: the ffmpeg commands run so far
    temp_dir,    \* music_assemble_ffmpeg: "none", "present" or "removed"
    concat_video,\* music_assemble_ffmpeg: the content of concat_video.mp4
    output,      \* music_assemble_ffmpeg: the output video, <<>> until it is muxed
    asm_rc,      \* music_assemble_ffmpeg: main's return value, -1 while it runs
    asm_error,   \* music_assemble_ffmpeg: the error main printed, "" for none
    gen_in,      \* music_generate: the plan and the command line
    gen_pc,      \* music_generate: position inside main
    gen_shots,   \* music_generate: main's local `shots`
    gen_shot,    \* music_generate: the position of the `for shot in shots` loop
    gen_takes,   \* music_generate: main's local `takes`
    take_index,  \* music_generate: main's local `take_index`
    shot_report, \* music_generate: the takes of the current shot_report
    shot_reports,\* music_generate: main's local `shot_reports`
    gen_counts,  \* music_generate: total_takes, successful_takes, failed_takes
    gen_manifest,\* music_generate: the manifest file, <<>> until it is written
    gen_rc,      \* music_generate: main's return value, -1 while it runs
    pl_in,       \* music_video: the command line and the audio file
    pl_pc,       \* music_video: position inside main
    pl_running,  \* music_video: the stage whose process runs, "" for none
    pl_events,   \* music_video: the starts and exits of the stages (history)
    stage_reports, \* music_video: main's local `stage_reports`
    pl_report,   \* music_video: pipeline_report.json, <<>> until it is written
    pl_rc,       \* music_video: main's return value, -1 while it runs
    rh_in,       \* run_headless: the command line
    rh_pc,       \* run_headless: position inside main and _run_once
    rh_file,     \* the operator state file of the Wan2GP root, <<>> while missing
    rh_loaded,   \* run_headless: the state as load_operator_state returned it (history)
    rh_state,    \* run_headless: main's local `state`
    state_changed, \* run_headless: main's local `state_changed`
    current_command, \* run_headless: main's local `current_command`
    attempts,    \* run_headless: main's locals `attempts` and `combined_logs`
    rh_elapsed,  \* run_headless: minutes since _run_once started the last child
    rh_log,      \* run_headless: the signatures that _run_once's `lines` hold
    rh_report,   \* run_headless: the final report, <<>> until it is printed
    rh_rc,       \* run_headless: main's return value, -1 while it runs
    rh_clock,    \* the wall clock _utc_now_iso reads
    rh_runs      \* how many operations have worked on the state file (history)

planMainVars == <<analysis_found, plan_file, plan_rc>>
planVars == <<analysis, args, pc, beats, beat_sec, rng, cursor, shot_index,
              shots, swept, run, first_plan, planMainVars>>
anVars == <<an_in, an_pc, an_analysis, an_file, an_rc>>
btVars == <<bt_takes, bt_disk, bt_pc, bt_result>>
asmVars == <<asm_in, asm_pc, clip_paths, normalized_files, concat_list, commands,
             temp_dir, concat_video, output, asm_rc, asm_error>>
genVars == <<gen_in, gen_pc, gen_shots, gen_shot, gen_takes, take_index, shot_report,
             shot_reports, gen_counts, gen_manifest, gen_rc>>
plVars == <<pl_in, pl_pc, pl_running, pl_events, stage_reports, pl_report, pl_rc>>
rhVars == <<rh_in, rh_pc, rh_file, rh_loaded, rh_state, state_changed, current_command,
            attempts, rh_elapsed, rh_log, rh_report, rh_rc, rh_clock, rh_runs>>
vars == <<planVars, anVars, btVars, asmVars, genVars, plVars, rhVars>>
\* What the steps of one script leave alone: the state of the other scripts.
notPlan == <<anVars, btVars, asmVars, genVars, plVars, rhVars>>
notAnalyze == <<planVars, btVars, asmVars, genVars, plVars, rhVars>>
notBestTake == <<planVars, anVars, asmVars, genVars, plVars, rhVars>>
notAssemble == <<planVars, anVars, btVars, genVars, plVars, rhVars>>
notGenerate == <<planVars, anVars, btVars, asmVars, plVars, rhVars>>
notPipeline == <<planVars, anVars, btVars, asmVars, genVars, rhVars>>
notRunHeadless == <<planVars, anVars, btVars, asmVars, genVars, plVars>>

----------------------------------------------------------------------------
(* Units *)

Sec == 100 * 1000            \* ticks in one second
HalfSec == Sec \div 2
Milli == Sec \div 1000
RoundUnit == Sec \div 10000  \* ticks in 1e-4 s, the last decimal round(x, 4) keeps

Min2(a, b) == IF a <= b THEN a ELSE b
Max2(a, b) == IF a >= b THEN a ELSE b
Abs(x) == IF x < 0 THEN -x ELSE x

\* Python's round to the nearest multiple of `unit`, a tie to the even multiple;
\* the result counts the multiples.
RoundHalfEven(x, unit) ==
    LET q == x \div unit
        r == x % unit
    IN  IF 2 * r < unit THEN q
        ELSE IF 2 * r > unit THEN q + 1
        ELSE IF q % 2 = 0 THEN q ELSE q + 1

\* round(x, 4) of a time in ticks.
Round4(x) == RoundHalfEven(x, RoundUnit) * RoundUnit

----------------------------------------------------------------------------
(* music_plan.py: pure helpers *)

LoopSlackMilli == 100        \* the 0.1 s of `while cursor < duration_seconds - 0.1`
BeatsHero == 4
BeatsStandard == 6
BeatsFiller == 8
BpmFloor == 40
BpmCeil == 220
BpmDefault == 120
SecondsPerMinute == 60

SeqToSet(s) == {s[i] : i \in 1..Len(s)}

\* statistics.median of a non-empty list: the middle value, or the mean of the
\* two middle values (exact here: the intervals are multiples of 1e-4 s).
Median(s) ==
    LET o == SortSeq(s, LAMBDA a, b : a < b)
        n == Len(o)
    IN  IF n % 2 = 1 THEN o[(n + 1) \div 2]
        ELSE (o[n \div 2] + o[n \div 2 + 1]) \div 2

\* A bpm value is an integer count of thousandths of a beat per minute.
Bpm(n) == n * 1000

\* _beat_interval: the median positive gap between beats, else 60 / bpm with
\* the bpm clamped into [40, 220] (0 or missing counts as 120).  60 / bpm is
\* cut to the tick.
BeatInterval(bs, fallback_bpm) ==
    LET gaps == [i \in 1..(Len(bs) - 1) |-> bs[i + 1] - bs[i]]
        pos == SelectSeq(gaps, LAMBDA g : g > 0)
        bpm == Max2(Bpm(BpmFloor), Min2(Bpm(BpmCeil),
                   IF fallback_bpm = 0 THEN Bpm(BpmDefault) ELSE fallback_bpm))
    IN  IF Len(bs) >= 2 /\ Len(pos) > 0 THEN Median(pos)
        ELSE (SecondsPerMinute * Sec * 10) \div (bpm \div 100)

\* _snap_forward: the first beat, in list order, at or after the target;
\* the last beat when there is none; the target itself without beats.
RECURSIVE FirstAtOrAfter(_, _, _)
FirstAtOrAfter(target, bs, i) ==
    IF i > Len(bs) THEN bs[Len(bs)]
    ELSE IF bs[i] >= target THEN bs[i]
    ELSE FirstAtOrAfter(target, bs, i + 1)

SnapForward(target, bs) ==
    IF bs = <<>> THEN target ELSE FirstAtOrAfter(target, bs, 1)

DefaultSection(time_sec) ==
    [label |-> "section", energy |-> "medium", start_sec |-> 0, end_sec |-> time_sec + Sec]

\* _find_section_at: the first section with start <= t < end, else the last
\* section, else a default record.
RECURSIVE FindSectionFrom(_, _, _)
FindSectionFrom(time_sec, sections, i) ==
    IF i > Len(sections)
    THEN IF Len(sections) > 0 THEN sections[Len(sections)] ELSE DefaultSection(time_sec)
    ELSE IF sections[i].start_sec <= time_sec /\ time_sec < sections[i].end_sec
         THEN sections[i]
         ELSE FindSectionFrom(time_sec, sections, i + 1)

FindSectionAt(time_sec, sections) == FindSectionFrom(time_sec, sections, 1)

\* str.lower() on the labels and energies of the model.
Lower(s) ==
    CASE s = "Chorus" -> "chorus"
      [] s = "LOW" -> "low"
      [] s = "SUCCESS" -> "success"
      [] OTHER -> s

\* `"chorus" in label or "drop" in label` on a lower-cased label.
HasChorusOrDrop(label) == label \in {"chorus", "pre-chorus", "drop", "bass drop"}

\* (variant: only "chorus" is looked for in the label)
ShotTypeChorusOnly(section_label, energy, idx) ==
    IF idx = 1 THEN "hero"
    ELSE IF Lower(section_label) \in {"chorus", "pre-chorus"} THEN "hero"
    ELSE IF Lower(energy) = "low" THEN "filler"
    ELSE "standard"

\* _shot_type
ShotType(section_label, energy, idx) ==
    IF idx = 1 THEN "hero"
    ELSE IF HasChorusOrDrop(Lower(section_label)) THEN "hero"
    ELSE IF Lower(energy) = "low" THEN "filler"
    ELSE "standard"

\* _section_descriptor, by the name of the descriptor it returns.
SectionDescriptor(section_label) ==
    LET label == Lower(section_label)
    IN  IF label \in {"intro", "verse", "pre-chorus", "chorus", "bridge", "outro"}
        THEN label ELSE "generic"

\* _takes_for_kind
TakesForKind(shot_kind, a) ==
    IF shot_kind = "hero" THEN Max2(1, a.takes_hero)
    ELSE IF shot_kind = "standard" THEN Max2(1, a.takes_standard)
    ELSE Max2(1, a.takes_filler)

BeatsPerShot(shot_kind) ==
    IF shot_kind = "hero" THEN BeatsHero
    ELSE IF shot_kind = "standard" THEN BeatsStandard
    ELSE BeatsFiller

----------------------------------------------------------------------------
(* random.Random, abstracted: a seeded generator whose every draw is a      *)
(* function of its state.  choice() and sample() each consume the state.    *)

RngMod == 97
CameraMoves == 6
StyleTokens == 4
StyleSamples == StyleTokens * (StyleTokens - 1) * (StyleTokens - 2)  \* ordered samples of 3 tokens

\* (variant: the generator of the previous call is carried on, not re-seeded)
RngSeedCarried(seed, prev) == prev
\* `rng = random.Random(args.seed)`; `prev` is the state an earlier call left.
RngSeed(seed, prev) == seed % RngMod
RngNext(s) == (s * 31 + 17) % RngMod

\* _build_prompt: camera = rng.choice(...), then style = rng.sample(..., 3);
\* the prompt is the text built from theme, descriptor, camera, style, brand.
BuildPrompt(r, a, section_label) ==
    LET r1 == RngNext(r)
        r2 == RngNext(r1)
    IN  [prompt |-> [theme |-> a.theme,
                     descriptor |-> SectionDescriptor(section_label),
                     camera |-> r1 % CameraMoves,
                     style |-> r2 % StyleSamples,
                     brand |-> a.brand],
         rng |-> r2]

----------------------------------------------------------------------------
(* music_analyze.py: the synthetic beat grid *)

\* _clip_round: drop the values outside [0, duration], round the rest.
ClipRound(values, duration) ==
    LET kept == SelectSeq(values, LAMBDA v : ~(v < 0) /\ ~(v > duration))
    IN  [i \in 1..Len(kept) |-> Round4(kept[i])]

FallbackBpm == 120

\* _fallback_beats: max(1, floor(duration / (60 / 120))) beats, 60 / 120 s apart.
FallbackBeats(duration_seconds) ==
    LET beat_interval == (SecondsPerMinute * Sec) \div FallbackBpm
        beat_count == Max2(1, duration_seconds \div beat_interval)
        grid == [i \in 1..beat_count |-> (i - 1) * beat_interval]
    IN  ClipRound(grid, duration_seconds)

----------------------------------------------------------------------------
(* music_analyze.py: bpm, sections, main *)

MinBeats == 4                \* `if len(beats) < 4`
MinBeatsForBpm == 3          \* `if len(beats) < 3`
ShortTrackSec == 45          \* `if duration_seconds <= 45`
MinSpanSec == 2              \* `max(2.0, float(min_section_seconds))`
DownbeatEvery == 4           \* `beats[::4]`
Fine == 10 * 10                  \* section boundaries count hundredths of a tick

\* _infer_bpm_from_beats: 60 / median gap when that lies in [40, 220], else
\* the fallback.  The comparisons are exact; the quotient is cut to 0.01 bpm.
InferBpmFromBeats(bs, fallback_bpm) ==
    LET gaps == [i \in 1..(Len(bs) - 1) |-> bs[i + 1] - bs[i]]
        pos == SelectSeq(gaps, LAMBDA g : g > 0)
        med == Median(pos)
    IN  IF Len(bs) < MinBeatsForBpm THEN fallback_bpm
        ELSE IF Len(pos) = 0 THEN fallback_bpm
        ELSE IF med <= 0 THEN fallback_bpm
        ELSE IF SecondsPerMinute * Sec < BpmFloor * med
                \/ SecondsPerMinute * Sec > BpmCeil * med THEN fallback_bpm
        ELSE ((SecondsPerMinute * Sec * 100) \div med) * 10

\* _snap_to_nearest_beat on a target in hundredths of a tick: min(beats,
\* key=|beat - target|), the first of the nearest beats in list order.
RECURSIVE NearestFrom(_, _, _, _)
NearestFrom(target, bs, i, best) ==
    IF i > Len(bs) THEN best
    ELSE IF Abs(bs[i] * Fine - target) < Abs(best * Fine - target)
         THEN NearestFrom(target, bs, i + 1, bs[i])
         ELSE NearestFrom(target, bs, i + 1, best)

SnapToNearestBeat(target, bs) ==
    IF bs = <<>> THEN target ELSE NearestFrom(target, bs, 2, bs[1]) * Fine

\* The layouts of _build_sections: <<label, ratio in percent>>.
ShortLayout ==
    << <<"intro", 14>>, <<"verse", 24>>, <<"chorus", 22>>, <<"verse", 20>>, <<"chorus", 20>> >>
LongLayout ==
    << <<"intro", 10>>, <<"verse", 16>>, <<"pre-chorus", 10>>, <<"chorus", 14>>,
       <<"verse", 16>>, <<"chorus", 14>>, <<"bridge", 10>>, <<"chorus", 10>> >>

EnergyByLabel(label) ==
    CASE label \in {"intro", "outro"} -> "low"
      [] label = "chorus" -> "high"
      [] OTHER -> "medium"

RECURSIVE RatioSum(_, _)
RatioSum(layout, k) == IF k = 0 THEN 0 ELSE RatioSum(layout, k - 1) + layout[k][2]

\* (variant: every boundary is kept)
CleanFromKeepAll(boundaries, i, min_span, cleaned) ==
    cleaned \o SubSeq(boundaries, i, Len(boundaries))

\* Lines 153-158: keep a boundary only if it lies min_span after the last kept.
RECURSIVE CleanFrom(_, _, _, _)
CleanFrom(boundaries, i, min_span, cleaned) ==
    IF i > Len(boundaries) THEN cleaned
    ELSE IF boundaries[i] - cleaned[Len(cleaned)] < min_span
         THEN CleanFrom(boundaries, i + 1, min_span, cleaned)
         ELSE CleanFrom(boundaries, i + 1, min_span, Append(cleaned, boundaries[i]))

PercentFine == Fine \div 100  \* one percent of a tick, in hundredths of a tick

\* (variant: line 159-160, forcing the final boundary to the duration, left out)
CleanedBoundariesUnforced(duration_seconds, bs, min_section_seconds) ==
    LET layout == IF duration_seconds <= ShortTrackSec * Sec THEN ShortLayout ELSE LongLayout
        d == duration_seconds * Fine
        snapped == [k \in 1..Len(layout) |->
                       Min2(d, Max2(0, SnapToNearestBeat(
                           duration_seconds * RatioSum(layout, k) * PercentFine, bs)))]
        boundaries == <<0>> \o snapped \o <<d>>
        min_span == Max2(MinSpanSec * Sec, min_section_seconds) * Fine
    IN  CleanFrom(boundaries, 2, min_span, <<boundaries[1]>>)

\* Lines 145-162: the section boundaries, in hundredths of a tick.
CleanedBoundaries(duration_seconds, bs, min_section_seconds) ==
    LET layout == IF duration_seconds <= ShortTrackSec * Sec THEN ShortLayout ELSE LongLayout
        d == duration_seconds * Fine
        snapped == [k \in 1..Len(layout) |->
                       Min2(d, Max2(0, SnapToNearestBeat(
                           duration_seconds * RatioSum(layout, k) * PercentFine, bs)))]
        boundaries == <<0>> \o snapped \o <<d>>
        min_span == Max2(MinSpanSec * Sec, min_section_seconds) * Fine
        kept == CleanFrom(boundaries, 2, min_span, <<boundaries[1]>>)
        forced == IF kept[Len(kept)] < d THEN [kept EXCEPT ![Len(kept)] = d] ELSE kept
    IN  IF forced[1] # 0 THEN <<0>> \o forced ELSE forced

\* round(x, 4) of a boundary in hundredths of a tick, in ticks.
Round4Fine(x) == RoundHalfEven(x, RoundUnit * Fine) * RoundUnit

\* _build_sections
BuildSections(duration_seconds, bs, min_section_seconds) ==
    LET layout == IF duration_seconds <= ShortTrackSec * Sec THEN ShortLayout ELSE LongLayout
        cleaned == CleanedBoundaries(duration_seconds, bs, min_section_seconds)
        labelAt(idx) ==
            IF idx < Len(layout) THEN layout[idx + 1][1]
            ELSE IF idx = Len(cleaned) - 2 THEN "outro"
            ELSE "section"
        all == [i \in 1..(Len(cleaned) - 1) |->
                   [label |-> labelAt(i - 1),
                    start_sec |-> Round4Fine(cleaned[i]),
                    end_sec |-> Round4Fine(cleaned[i + 1]),
                    energy |-> EnergyByLabel(labelAt(i - 1))]]
        sections == SelectSeq(all, LAMBDA x : ~(x.end_sec <= x.start_sec))
    IN  IF sections = <<>>
        THEN <<[label |-> "section", start_sec |-> 0,
                end_sec |-> Round4(duration_seconds), energy |-> "medium"]>>
        ELSE sections

\* beats[::4]
EveryFourth(bs) ==
    [i \in 1..((Len(bs) + DownbeatEvery - 1) \div DownbeatEvery) |->
        bs[(i - 1) * DownbeatEvery + 1]]

\* (variant: the too-few-beats test of line 221 left out)
DetectedBeatsTrusted(det, duration_seconds) ==
    LET clipped == ClipRound(det.beat_times, duration_seconds)
    IN  [bpm |-> InferBpmFromBeats(clipped, Max2(Bpm(1), det.tempo)),
         beats |-> clipped, warnings |-> <<>>]

\* Lines 218-227 of _try_librosa_analysis: the beats and bpm it goes on with.
DetectedBeats(det, duration_seconds) ==
    LET clipped == ClipRound(det.beat_times, duration_seconds)
    IN  IF Len(clipped) < MinBeats
        THEN [bpm |-> Bpm(FallbackBpm), beats |-> FallbackBeats(duration_seconds),
              warnings |-> <<"too few beats">>]
        ELSE [bpm |-> InferBpmFromBeats(clipped, Max2(Bpm(1), det.tempo)),
              beats |-> clipped, warnings |-> <<>>]

\* _try_librosa_analysis when nothing raises (lines 214-252).
LibrosaAnalysis(det, duration_seconds, min_section_seconds) ==
    LET got == DetectedBeats(det, duration_seconds)
    IN  [backend |-> "librosa",
         bpm |-> got.bpm,
         beats |-> got.beats,
         downbeats |-> ClipRound(EveryFourth(got.beats), duration_seconds),
         sections |-> BuildSections(duration_seconds, got.beats, min_section_seconds),
         warnings |-> got.warnings]

\* The except branch of main (lines 285-295).
FallbackAnalysis(duration_seconds, min_section_seconds) ==
    LET fallback_beats == FallbackBeats(duration_seconds)
    IN  [backend |-> "ffprobe-fallback",
         bpm |-> Bpm(FallbackBpm),
         beats |-> fallback_beats,
         downbeats |-> EveryFourth(fallback_beats),
         sections |-> BuildSections(duration_seconds, fallback_beats, min_section_seconds),
         warnings |-> <<"librosa analysis unavailable">>]

NoAnalysis == [backend |-> "none", bpm |-> 0, beats |-> <<>>, downbeats |-> <<>>,
               sections |-> <<>>, warnings |-> <<>>]

\* Lines 266-274: the audio path checks and _probe_audio.  A missing file, a
\* failing ffprobe or a non-positive duration raises, and main returns 1.
AnalyzeProbe ==
    /\ an_pc = "start"
    /\ IF ~an_in.audio_ok \/ ~an_in.probe_ok \/ an_in.duration <= 0
       THEN an_pc' = "exit" /\ an_rc' = 1
       ELSE an_pc' = "detect" /\ an_rc' = an_rc
    /\ UNCHANGED <<an_in, an_analysis, an_file>>
    /\ UNCHANGED notAnalyze

\* (variant: no except clause around _try_librosa_analysis)
AnalyzeDetectUncaught ==
    /\ an_pc = "detect"
    /\ IF an_in.detector.kind = "beats" /\ an_in.detector.energy_ok
       THEN /\ an_analysis' = LibrosaAnalysis(an_in.detector, an_in.duration,
                                              an_in.min_section_seconds)
            /\ an_pc' = "write"
            /\ UNCHANGED an_rc
       ELSE /\ an_pc' = "exit"
            /\ an_rc' = 1
            /\ UNCHANGED an_analysis
    /\ UNCHANGED <<an_in, an_file>>
    /\ UNCHANGED notAnalyze

\* Lines 276-295: _try_librosa_analysis, and the fallback when it raises
\* (librosa missing, the load or the beat tracker raising, the energy step
\* raising after the beats were found).
AnalyzeDetect ==
    /\ an_pc = "detect"
    /\ an_analysis' =
           IF an_in.detector.kind = "beats" /\ an_in.detector.energy_ok
           THEN LibrosaAnalysis(an_in.detector, an_in.duration, an_in.min_section_seconds)
           ELSE FallbackAnalysis(an_in.duration, an_in.min_section_seconds)
    /\ an_pc' = "write"
    /\ UNCHANGED <<an_in, an_file, an_rc>>
    /\ UNCHANGED notAnalyze

\* Lines 297-316: the report is written and main returns 0.
AnalyzeWrite ==
    /\ an_pc = "write"
    /\ an_file' = <<[status |-> "success",
                     duration_seconds |-> Round4(an_in.duration),
                     backend |-> an_analysis.backend,
                     bpm |-> an_analysis.bpm,
                     beat_count |-> Len(an_analysis.beats),
                     beats |-> an_analysis.beats,
                     downbeats |-> an_analysis.downbeats,
                     sections |-> an_analysis.sections,
                     warnings |-> an_analysis.warnings]>>
    /\ an_rc' = 0
    /\ an_pc' = "exit"
    /\ UNCHANGED <<an_in, an_analysis>>
    /\ UNCHANGED notAnalyze

----------------------------------------------------------------------------
(* music_plan.py: _build_shots *)

\* `float(analysis.get("duration_seconds", 0.0) or 0.0)`
DurationOf(an) == IF an.has_duration THEN an.duration_seconds ELSE 0

\* (variant: lines 231-232, the clamp to max_shot_seconds, left out)
ShotEndUnclamped(cur, shot_kind, duration_seconds, a, bs, bsec) ==
    LET raw_duration == BeatsPerShot(shot_kind) * bsec
        shot_duration == Max2(a.min_shot_seconds, Min2(a.max_shot_seconds, raw_duration))
        target_end == cur + shot_duration
        snapped_end == IF bs # <<>> THEN SnapForward(target_end, bs) ELSE target_end
        e1 == Min2(duration_seconds, Max2(cur + a.min_shot_seconds, snapped_end))
    IN  IF e1 <= cur
        THEN Min2(duration_seconds, cur + Max2(bsec, a.min_shot_seconds))
        ELSE e1

\* Lines 226-234: the end of the shot that starts at `cur`.
ShotEnd(cur, shot_kind, duration_seconds, a, bs, bsec) ==
    LET raw_duration == BeatsPerShot(shot_kind) * bsec
        shot_duration == Max2(a.min_shot_seconds, Min2(a.max_shot_seconds, raw_duration))
        target_end == cur + shot_duration
        snapped_end == IF bs # <<>> THEN SnapForward(target_end, bs) ELSE target_end
        e1 == Min2(duration_seconds, Max2(cur + a.min_shot_seconds, snapped_end))
        e2 == IF e1 - cur > a.max_shot_seconds
              THEN Min2(duration_seconds, cur + a.max_shot_seconds) ELSE e1
    IN  IF e2 <= cur
        THEN Min2(duration_seconds, cur + Max2(bsec, a.min_shot_seconds))
        ELSE e2

\* Lines 215-218 and 243-257: the record of the shot that starts at `cur`.
ShotRecord(cur, end_sec, idx, an, a, built) ==
    LET section == FindSectionAt(cur, an.sections)
        shot_kind == ShotType(section.label, section.energy, idx)
    IN  [id |-> idx,
         start_sec |-> Round4(cur),
         end_sec |-> Round4(end_sec),
         duration_sec |-> Round4(end_sec - cur),
         section |-> section.label,
         energy |-> section.energy,
         priority |-> shot_kind,
         prompt |-> built.prompt,
         takes |-> TakesForKind(shot_kind, a)]

\* (variant: the merged shot keeps its old duration_sec)
TailMergedStaleDuration(ss, a) ==
    LET n == Len(ss)
    IN  IF n >= 2 /\ ss[n].duration_sec < a.min_shot_seconds
        THEN [i \in 1..(n - 1) |->
                 IF i = n - 1 THEN [ss[i] EXCEPT !.end_sec = ss[n].end_sec] ELSE ss[i]]
        ELSE ss

\* (variant: the post-pass left out)
TailNotMerged(ss, a) == ss

\* Lines 262-272: merge a final shot shorter than min_shot_seconds into the
\* shot before it.
TailMerged(ss, a) ==
    LET n == Len(ss)
    IN  IF n >= 2 /\ ss[n].duration_sec < a.min_shot_seconds
        THEN [i \in 1..(n - 1) |->
                 IF i = n - 1
                 THEN [ss[i] EXCEPT !.end_sec = ss[n].end_sec,
                                    !.duration_sec = Round4(ss[n].end_sec - ss[i].start_sec)]
                 ELSE ss[i]]
        ELSE ss

\* (variant: lines 199-200 left out, no check of the duration)
BuildShotsStartUnchecked ==
    /\ pc = "start"
    /\ pc' = "sweep"
    /\ beats' = SelectSeq(analysis.beats, LAMBDA b : b >= 0)
    /\ beat_sec' = BeatInterval(beats', IF analysis.bpm = 0 THEN Bpm(BpmDefault)
                                         ELSE analysis.bpm)
    /\ rng' = RngSeed(args.seed, rng)
    /\ cursor' = 0
    /\ shot_index' = 1
    /\ shots' = <<>>
    /\ UNCHANGED <<analysis, args, swept, run, first_plan>>
    /\ UNCHANGED planMainVars
    /\ UNCHANGED notPlan

\* Lines 198-212: the duration check and the locals of the sweep.
BuildShotsStart ==
    /\ pc = "start"
    /\ IF DurationOf(analysis) <= 0
       THEN /\ pc' = "error"
            /\ UNCHANGED <<beats, beat_sec, rng, cursor, shot_index, shots>>
       ELSE /\ pc' = "sweep"
            /\ beats' = SelectSeq(analysis.beats, LAMBDA b : b >= 0)
            /\ beat_sec' = BeatInterval(beats', IF analysis.bpm = 0 THEN Bpm(BpmDefault)
                                                 ELSE analysis.bpm)
            /\ rng' = RngSeed(args.seed, rng)
            /\ cursor' = 0
            /\ shot_index' = 1
            /\ shots' = <<>>
    /\ UNCHANGED <<analysis, args, swept, run, first_plan>>
    /\ UNCHANGED planMainVars
    /\ UNCHANGED notPlan

\* One iteration of `while cursor < duration_seconds - 0.1` (lines 214-260).
SweepStep ==
    /\ pc = "sweep"
    /\ cursor < DurationOf(analysis) - LoopSlackMilli * Milli
    /\ LET section == FindSectionAt(cursor, analysis.sections)
           shot_kind == ShotType(section.label, section.energy, shot_index)
           end_sec == ShotEnd(cursor, shot_kind, DurationOf(analysis), args, beats, beat_sec)
           built == BuildPrompt(rng, args, section.label)
       IN  /\ shots' = Append(shots, ShotRecord(cursor, end_sec, shot_index, analysis, args, built))
           /\ rng' = built.rng
           /\ cursor' = end_sec
           /\ shot_index' = shot_index + 1
    /\ UNCHANGED <<analysis, args, pc, beats, beat_sec, swept, run, first_plan>>
    /\ UNCHANGED planMainVars
    /\ UNCHANGED notPlan

\* The loop condition fails: the sweep is over.
SweepExit ==
    /\ pc = "sweep"
    /\ ~(cursor < DurationOf(analysis) - LoopSlackMilli * Milli)
    /\ pc' = "tail"
    /\ swept' = shots
    /\ UNCHANGED <<analysis, args, beats, beat_sec, rng, cursor, shot_index, shots,
                   run, first_plan>>
    /\ UNCHANGED planMainVars
    /\ UNCHANGED notPlan

\* The tail merge and the return (lines 262-274).
TailMergeReturn ==
    /\ pc = "tail"
    /\ shots' = TailMerged(shots, args)
    /\ pc' = "done"
    /\ UNCHANGED <<analysis, args, beats, beat_sec, rng, cursor, shot_index, swept,
                   run, first_plan>>
    /\ UNCHANGED planMainVars
    /\ UNCHANGED notPlan

\* A second call of _build_shots in the same process, on the same inputs.
CallAgain ==
    /\ pc = "done"
    /\ run = 1
    /\ first_plan' = shots
    /\ run' = 2
    /\ pc' = "start"
    /\ UNCHANGED <<analysis, args, beats, beat_sec, rng, cursor, shot_index, shots, swept>>
    /\ UNCHANGED planMainVars
    /\ UNCHANGED notPlan

----------------------------------------------------------------------------
(* music_plan.py: main *)

\* Lines 278-284: the arguments are parsed and the analysis file is looked
\* for; without it main raises and returns 1.
PlanMainStart ==
    /\ pc = "main"
    /\ \E found \in BOOLEAN :
         /\ analysis_found' = found
         /\ IF found
            THEN pc' = "start" /\ UNCHANGED plan_rc
            ELSE pc' = "exit" /\ plan_rc' = 1
    /\ UNCHANGED plan_file
    /\ UNCHANGED <<analysis, args, beats, beat_sec, rng, cursor, shot_index, shots,
                   swept, run, first_plan>>
    /\ UNCHANGED notPlan

\* Lines 286-311: _build_shots returned; the plan is written, main returns 0.
PlanMainWrite ==
    /\ pc = "done"
    /\ plan_file' = <<[status |-> "success",
                       duration_seconds |-> DurationOf(analysis),
                       shots |-> shots,
                       total_shots |-> Len(shots)]>>
    /\ plan_rc' = 0
    /\ pc' = "exit"
    /\ UNCHANGED analysis_found
    /\ UNCHANGED <<analysis, args, beats, beat_sec, rng, cursor, shot_index, shots,
                   swept, run, first_plan>>
    /\ UNCHANGED notPlan

\* Lines 312-314: _build_shots raised; the error goes to stderr, main returns 1.
PlanMainRaise ==
    /\ pc = "error"
    /\ plan_rc' = 1
    /\ pc' = "exit"
    /\ UNCHANGED <<analysis_found, plan_file>>
    /\ UNCHANGED <<analysis, args, beats, beat_sec, rng, cursor, shot_index, shots,
                   swept, run, first_plan>>
    /\ UNCHANGED notPlan

----------------------------------------------------------------------------
(* The inputs of _best_take and of the assembly *)

MaxTakes == 3
MaxShots == 3
MaxAudioSec == 7

Take(n, status, video_file, quality_score) ==
    [take |-> n, status |-> status, video_file |-> video_file,
     quality_score |-> quality_score]

\* Up to MaxTakes takes, numbered as they come: a status, a file or none, a
\* score in hundredths or none.
Statuses == {"success", "SUCCESS", "error"}
VideoFiles == {<<>>, <<1>>, <<2>>}
QualityScores == {<<>>, <<35>>, <<80>>}
TakeDisks == {{1, 2}, {1}}
\* The takes a shot of a manifest can have: none; one that failed; three with
\* the scores 0.35, 0.8, 0.6; two without a score; one whose file may be gone.
ShotTakes ==
    { <<>>,
      <<Take(1, "error", <<1>>, <<80>>)>>,
      <<Take(1, "success", <<1>>, <<35>>), Take(2, "success", <<2>>, <<80>>),
        Take(3, "success", <<3>>, <<60>>)>>,
      <<Take(1, "SUCCESS", <<4>>, <<>>), Take(2, "success", <<5>>, <<>>)>>,
      <<Take(1, "success", <<6>>, <<80>>), Take(2, "planned", <<>>, <<>>)>> }

Manifests ==
    UNION { { [shots |-> [i \in 1..n |-> [shot_id |-> i, takes |-> tk[i]]],
               clips |-> cl] :
                tk \in [1..n -> ShotTakes], cl \in {<<>>, <<8, 7>>} } : n \in 0..MaxShots }

Disks == {{1, 2, 3, 4, 5, 6, 7}, {1, 3, 5}, {7}, {}}

\* What main meets before it selects the clips, and whether --resolution parses.
Environments ==
    { <<"ok", TRUE>>, <<"ok", FALSE>>, <<"ffmpeg not found on PATH", TRUE>>,
      <<"ffprobe not found on PATH", TRUE>>, <<"Audio file not found", TRUE>>,
      <<"Manifest file not found", TRUE>> }

MaxClipsInputs == {<<>>, <<0>>, <<2>>}
AudioSeconds == {2, MaxAudioSec}

\* Whether the script runs as a stage of music_video.py; then it starts when
\* its stage does.
StartedByPipeline == pl_pc # "idle"

StageRuns(name) == ~StartedByPipeline \/ pl_running = name

\* The manifest music_generate.py wrote, as music_assemble_ffmpeg.py reads it
\* (it has no top-level `clips`), and the video files its takes name.
GeneratedManifest ==
    [shots |-> IF gen_manifest = <<>> THEN <<>> ELSE gen_manifest[1].shots,
     clips |-> <<>>]

GeneratedFiles ==
    LET manifest_shots == GeneratedManifest.shots
    IN  UNION { { manifest_shots[i].takes[j].video_file[1] :
                    j \in { k \in 1..Len(manifest_shots[i].takes) :
                               manifest_shots[i].takes[k].video_file # <<>> } } :
                i \in 1..Len(manifest_shots) }

\* The command line and the files of one run: any of the model's, or, as the
\* assemble stage of music_video.py (lines 229-242, no --max-clips and no
\* --keep-temp), the manifest of the generate stage and the files it found.
ManifestsGiven == IF ~StartedByPipeline THEN Manifests ELSE {GeneratedManifest}
DisksGiven == IF ~StartedByPipeline THEN Disks ELSE {GeneratedFiles}
MaxClipsGiven == IF ~StartedByPipeline THEN MaxClipsInputs ELSE {<<>>}
KeepTempGiven == IF ~StartedByPipeline THEN BOOLEAN ELSE {FALSE}

----------------------------------------------------------------------------
(* music_assemble_ffmpeg.py *)

\* A take is [status, video_file, quality_score]; video_file and quality_score
\* are <<>> for None (or a missing key) and <<v>> for the value v.  A file is
\* named by a number; a quality score counts hundredths.

\* `float(take.get("quality_score", 0.0) or 0.0)`
ScoreOf(take) == IF take.quality_score = <<>> THEN 0 ELSE take.quality_score[1]

\* Lines 79-86 of _best_take: the take is a candidate.
IsCandidate(take, disk) ==
    /\ Lower(take.status) = "success"
    /\ take.video_file # <<>>
    /\ take.video_file[1] \in disk

\* list.sort(key=score, reverse=True) is stable: a candidate goes behind the
\* candidates already placed that score at least as much.
RECURSIVE SortByScoreDesc(_, _, _)
SortByScoreDesc(cands, i, sorted) ==
    IF i > Len(cands) THEN sorted
    ELSE LET ahead == SelectSeq(sorted, LAMBDA t : ScoreOf(t) >= ScoreOf(cands[i]))
             behind == SelectSeq(sorted, LAMBDA t : ScoreOf(t) < ScoreOf(cands[i]))
         IN  SortByScoreDesc(cands, i + 1, ahead \o <<cands[i]>> \o behind)

\* (variant: among equal scores the last take wins)
BestTakeLastWins(takes, disk) ==
    LET candidates == SelectSeq(takes, LAMBDA t : IsCandidate(t, disk))
        best == {i \in 1..Len(candidates) :
                    \A j \in 1..Len(candidates) :
                        ScoreOf(candidates[j]) <= ScoreOf(candidates[i])}
    IN  IF candidates = <<>> THEN <<>>
        ELSE <<candidates[CHOOSE i \in best : \A j \in best : j <= i]>>

\* _best_take: <<>> for None, else <<the take>>.
BestTake(takes, disk) ==
    LET candidates == SelectSeq(takes, LAMBDA t : IsCandidate(t, disk))
    IN  IF candidates = <<>> THEN <<>>
        ELSE <<SortByScoreDesc(candidates, 1, <<>>)[1]>>

\* One call of _best_take, on a take list and a disk of the caller's.
BestTakeCall ==
    /\ bt_pc = "call"
    /\ \E n \in 0..MaxTakes :
         \E st \in [1..n -> Statuses], vf \in [1..n -> VideoFiles],
            qs \in [1..n -> QualityScores], disk \in TakeDisks :
              LET takes == [i \in 1..n |-> Take(i, st[i], vf[i], qs[i])]
              IN  /\ bt_takes' = takes
                  /\ bt_disk' = disk
                  /\ bt_result' = BestTake(takes, disk)
    /\ bt_pc' = "returned"
    /\ UNCHANGED notBestTake

RECURSIVE BestClips(_, _, _)
BestClips(manifest_shots, disk, i) ==
    IF i > Len(manifest_shots) THEN <<>>
    ELSE LET best == BestTake(manifest_shots[i].takes, disk)
         IN  (IF best = <<>> THEN <<>> ELSE <<best[1].video_file[1]>>)
                 \o BestClips(manifest_shots, disk, i + 1)

Prefix(s, n) == [i \in 1..Min2(n, Len(s)) |-> s[i]]

\* (variant: line 104-105, `if not best: continue`, replaced by the first take)
SelectClipPathsFirstTake(manifest, max_clips, disk) ==
    LET withFile == SelectSeq(manifest.shots,
                        LAMBDA sh : Len(sh.takes) > 0 /\ sh.takes[1].video_file # <<>>)
    IN  [i \in 1..Len(withFile) |-> withFile[i].takes[1].video_file[1]]

\* _select_clip_paths: the best take's file of every shot that has one; when
\* there is none, the existing files of the manifest's top-level `clips`;
\* cut to max(1, max_clips) when a cap is given.
SelectClipPaths(manifest, max_clips, disk) ==
    LET from_shots == BestClips(manifest.shots, disk, 1)
        clips == IF from_shots = <<>>
                 THEN SelectSeq(manifest.clips, LAMBDA f : f \in disk)
                 ELSE from_shots
    IN  IF max_clips = <<>> THEN clips
        ELSE Prefix(clips, Max2(1, max_clips[1]))

\* The length of a clip in seconds, and its content second by second.
ClipSeconds(f) == 1 + (f % 2)
ClipContent(f) == [k \in 1..ClipSeconds(f) |-> <<f, k>>]

RECURSIVE Concatenated(_, _)
Concatenated(files, i) ==
    IF i > Len(files) THEN <<>>
    ELSE ClipContent(files[i].source) \o Concatenated(files, i + 1)

\* (variant: `-stream_loop -1` left out of the mux command)
MuxCommandNoLoop == [name |-> "mux", stream_loop |-> 0, shortest |-> TRUE]

\* _mux_audio's command (lines 201-230): the video input looped without end
\* (-stream_loop -1), the output cut to the shorter stream (-shortest).
MuxCommand == [name |-> "mux", stream_loop |-> -1, shortest |-> TRUE]

\* ffmpeg on the mux command: the video stream repeats from its start
\* stream_loop more times (without end for -1); with -shortest the output ends
\* with the stream that ends first, without it with the one that ends last.
\* 0 stands for an output that never ends.
MuxedSeconds(cmd, video_seconds, audio_seconds) ==
    IF cmd.stream_loop = -1
    THEN IF cmd.shortest THEN audio_seconds ELSE 0
    ELSE IF cmd.shortest
         THEN Min2(video_seconds * (cmd.stream_loop + 1), audio_seconds)
         ELSE Max2(video_seconds * (cmd.stream_loop + 1), audio_seconds)

Muxed(cmd, video, audio_seconds) ==
    LET n == MuxedSeconds(cmd, Len(video), audio_seconds)
    IN  [seconds |-> n,
         video |-> [t \in 1..n |-> video[((t - 1) % Len(video)) + 1]],
         audio_seconds |-> Min2(n, audio_seconds)]

\* (variant: the check of lines 255-256 left out)
NoClipsIgnored(selected) == FALSE

\* Line 255, `if not clip_paths`.
NoClips(selected) == selected = <<>>

\* Lines 239-260, on the command line, manifest and disk of one run: the tools,
\* the audio and the manifest are looked up, the clips selected, the
\* resolution parsed.  Whatever raises ends main with 1
\* before the temporary directory exists.
AssembleStart ==
    /\ asm_pc = "start"
    /\ StageRuns("assemble")
    /\ \E m \in ManifestsGiven, d \in DisksGiven, mc \in MaxClipsGiven,
          kt \in KeepTempGiven, env \in Environments, au \in AudioSeconds :
         LET inp == [manifest |-> m, disk |-> d, max_clips |-> mc, keep_temp |-> kt,
                     preflight |-> env[1], resolution_ok |-> env[2],
                     audio_seconds |-> au]
             selected == SelectClipPaths(inp.manifest, inp.max_clips, inp.disk)
         IN  /\ asm_in' = inp
             /\ IF inp.preflight # "ok"
                THEN /\ asm_error' = inp.preflight
                     /\ asm_pc' = "exit"
                     /\ asm_rc' = 1
                     /\ UNCHANGED clip_paths
                ELSE IF NoClips(selected)
                THEN /\ asm_error' = "No successful clips found in manifest."
                     /\ asm_pc' = "exit"
                     /\ asm_rc' = 1
                     /\ clip_paths' = selected
                ELSE IF ~inp.resolution_ok
                THEN /\ asm_error' = "Resolution must be WIDTHxHEIGHT"
                     /\ asm_pc' = "exit"
                     /\ asm_rc' = 1
                     /\ clip_paths' = selected
                ELSE /\ asm_pc' = "mktemp"
                     /\ clip_paths' = selected
                     /\ UNCHANGED <<asm_error, asm_rc>>
    /\ UNCHANGED <<normalized_files, concat_list, commands, temp_dir,
                   concat_video, output>>
    /\ UNCHANGED notAssemble

\* Lines 262-265: the temporary directory is made.
AssembleMakeTemp ==
    /\ asm_pc = "mktemp"
    /\ temp_dir' = "present"
    /\ asm_pc' = "normalize"
    /\ UNCHANGED <<asm_in, clip_paths, normalized_files, concat_list, commands,
                   concat_video, output, asm_rc, asm_error>>
    /\ UNCHANGED notAssemble

\* One iteration of the loop of lines 267-278: ffmpeg normalizes the next clip
\* into clip_<index>.mp4, or fails.
AssembleNormalize ==
    /\ asm_pc = "normalize"
    /\ Len(normalized_files) < Len(clip_paths)
    /\ LET index == Len(normalized_files) + 1
       IN  /\ commands' = Append(commands, [name |-> "normalize", source |-> clip_paths[index]])
           /\ \E ok \in BOOLEAN :
                IF ok
                THEN /\ normalized_files' = Append(normalized_files,
                                               [name |-> index, source |-> clip_paths[index]])
                     /\ UNCHANGED <<asm_pc, asm_rc, asm_error>>
                ELSE /\ asm_error' = "Failed to normalize clip"
                     /\ asm_rc' = 1
                     /\ asm_pc' = "finally"
                     /\ UNCHANGED normalized_files
    /\ UNCHANGED <<asm_in, clip_paths, concat_list, temp_dir, concat_video, output>>
    /\ UNCHANGED notAssemble

\* Lines 280-288: the list file is written and ffmpeg concatenates, or fails.
AssembleConcat ==
    /\ asm_pc = "normalize"
    /\ Len(normalized_files) = Len(clip_paths)
    /\ concat_list' = [i \in 1..Len(normalized_files) |-> normalized_files[i].name]
    /\ commands' = Append(commands, [name |-> "concat", source |-> 0])
    /\ \E ok \in BOOLEAN :
         IF ok
         THEN /\ concat_video' = Concatenated(normalized_files, 1)
              /\ asm_pc' = "mux"
              /\ UNCHANGED <<asm_rc, asm_error>>
         ELSE /\ asm_error' = "Failed to concatenate clips"
              /\ asm_rc' = 1
              /\ asm_pc' = "finally"
              /\ UNCHANGED concat_video
    /\ UNCHANGED <<asm_in, clip_paths, normalized_files, temp_dir, output>>
    /\ UNCHANGED notAssemble

\* Line 289: ffmpeg muxes the concatenated video against the audio, or fails.
AssembleMux ==
    /\ asm_pc = "mux"
    /\ commands' = Append(commands, [name |-> MuxCommand.name, source |-> 0])
    /\ \E ok \in BOOLEAN :
         IF ok
         THEN /\ output' = <<Muxed(MuxCommand, concat_video, asm_in.audio_seconds)>>
              /\ asm_pc' = "report"
              /\ UNCHANGED <<asm_rc, asm_error>>
         ELSE /\ asm_error' = "Failed to mux audio/video"
              /\ asm_rc' = 1
              /\ asm_pc' = "finally"
              /\ UNCHANGED output
    /\ UNCHANGED <<asm_in, clip_paths, normalized_files, concat_list, temp_dir, concat_video>>
    /\ UNCHANGED notAssemble

\* Lines 291-308: the two durations are probed and the report written; a
\* failing probe raises.
AssembleReport ==
    /\ asm_pc = "report"
    /\ \E ok \in BOOLEAN :
         IF ok
         THEN asm_rc' = 0 /\ UNCHANGED asm_error
         ELSE asm_rc' = 1 /\ asm_error' = "ffprobe failed"
    /\ asm_pc' = "finally"
    /\ UNCHANGED <<asm_in, clip_paths, normalized_files, concat_list, commands, temp_dir,
                   concat_video, output>>
    /\ UNCHANGED notAssemble

\* Lines 312-314: the finally clause removes the temporary directory unless
\* --keep-temp was given.
\* (variant: the directory is removed only at the end of the try block)
AssembleFinallyOnSuccessOnly ==
    /\ asm_pc = "finally"
    /\ temp_dir' = IF temp_dir = "present" /\ ~asm_in.keep_temp /\ asm_rc = 0
                   THEN "removed" ELSE temp_dir
    /\ asm_pc' = "exit"
    /\ UNCHANGED <<asm_in, clip_paths, normalized_files, concat_list, commands,
                   concat_video, output, asm_rc, asm_error>>
    /\ UNCHANGED notAssemble

AssembleFinally ==
    /\ asm_pc = "finally"
    /\ temp_dir' = IF temp_dir = "present" /\ ~asm_in.keep_temp THEN "removed" ELSE temp_dir
    /\ asm_pc' = "exit"
    /\ UNCHANGED <<asm_in, clip_paths, normalized_files, concat_list, commands,
                   concat_video, output, asm_rc, asm_error>>
    /\ UNCHANGED notAssemble

----------------------------------------------------------------------------
(* run_headless.py: the status and exit code of one run *)

\* Lines 341-343 of main: the status of the final report.
RunHeadlessStatus(exit_code, timed_out) ==
    IF timed_out THEN "timeout"
    ELSE IF exit_code = 0 THEN "success" ELSE "error"

\* Lines 363-367 of main: the exit code that goes with the status.
RunHeadlessExit(status) ==
    IF status = "success" THEN 0 ELSE IF status = "timeout" THEN 124 ELSE 1

\* How a run of run_headless.py can end, as music_generate sees it: with the
\* final report on stdout (the child's exit code, whether the timeout struck),
\* with the error object of the except clause on stderr, or with no JSON
\* object at all (argparse's usage error, a killed interpreter).
RunOutcomes ==
    { [kind |-> "report", exit_code |-> e, timed_out |-> t] :
        e \in {0, 1}, t \in BOOLEAN }
    \cup { [kind |-> "raised", exit_code |-> 1, timed_out |-> FALSE] }
    \cup { [kind |-> "no report", exit_code |-> e, timed_out |-> FALSE] : e \in {0, 2} }

\* What run_proc.returncode is.
RunReturnCode(outcome) ==
    IF outcome.kind = "report"
    THEN RunHeadlessExit(RunHeadlessStatus(outcome.exit_code, outcome.timed_out))
    ELSE outcome.exit_code

----------------------------------------------------------------------------
(* _wan2gp_common.py: the operator state and the Wan2GP command *)

\* max_incidents of append_incident.
MaxIncidents == 100

\* load_operator_state's `base`.  A JSON object is a set of entries here, one
\* per key; `incidents_is_list` tells whether the file's "incidents" is a list.
BaseState ==
    [unsupported_args |-> {}, unsupported_attention_modes |-> {},
     incidents |-> <<>>, incidents_is_list |-> TRUE]

\* load_operator_state: the defaults when the file is missing or is not a
\* JSON object, else the file's object.
LoadOperatorState(file) == IF file = <<>> THEN BaseState ELSE file[1]

IsFlagKnownUnsupported(state, flag) ==
    \E e \in state.unsupported_args : e.key = flag

IsAttentionKnownUnsupported(state, mode) ==
    \E e \in state.unsupported_attention_modes : e.key = mode

\* The entry mark_unsupported_arg and mark_unsupported_attention write.
Marked(unsupported, key, now) ==
    LET existing == {e \in unsupported : e.key = key}
        old == CHOOSE e \in existing : TRUE
    IN  (unsupported \ existing)
          \cup {[key |-> key,
                 first_seen |-> IF existing = {} THEN now ELSE old.first_seen,
                 last_seen |-> now,
                 count |-> (IF existing = {} THEN 0 ELSE old.count) + 1]}

MarkUnsupportedArg(state, flag, now) ==
    [state EXCEPT !.unsupported_args = Marked(@, flag, now)]

MarkUnsupportedAttention(state, mode, now) ==
    [state EXCEPT !.unsupported_attention_modes = Marked(@, mode, now)]

\* A variant of AppendIncident that keeps the oldest entries.
AppendIncidentKeepOldest(state, signature, now) ==
    LET incidents == IF state.incidents_is_list THEN state.incidents ELSE <<>>
        appended == Append(incidents, [timestamp |-> now, signature |-> signature])
    IN  [state EXCEPT !.incidents_is_list = TRUE,
                      !.incidents = IF Len(appended) > MaxIncidents
                                    THEN SubSeq(appended, 1, MaxIncidents)
                                    ELSE appended]

\* append_incident: the entry is appended and the list cut to its last
\* max_incidents entries.
AppendIncident(state, signature, now) ==
    LET incidents == IF state.incidents_is_list THEN state.incidents ELSE <<>>
        appended == Append(incidents, [timestamp |-> now, signature |-> signature])
        n == Len(appended)
    IN  [state EXCEPT !.incidents_is_list = TRUE,
                      !.incidents = IF n > MaxIncidents
                                    THEN SubSeq(appended, n - MaxIncidents + 1, n)
                                    ELSE appended]

\* str.startswith("--") on the tokens of the model.
StartsWithDashes(token) ==
    token \in {"--process", "--verbose", "--attention", "--teacache", "--fp16"}

InCommand(flag, command) == \E i \in 1..Len(command) : command[i] = flag

RECURSIVE StripFrom(_, _, _, _, _)
StripFrom(command, flag, idx, skip_next, cleaned) ==
    IF idx > Len(command) THEN cleaned
    ELSE IF skip_next THEN StripFrom(command, flag, idx + 1, FALSE, cleaned)
    ELSE IF command[idx] = flag
         THEN StripFrom(command, flag, idx + 1,
                        idx + 1 <= Len(command) /\ ~StartsWithDashes(command[idx + 1]),
                        cleaned)
    ELSE StripFrom(command, flag, idx + 1, FALSE, Append(cleaned, command[idx]))

\* strip_flag_with_value.
StripFlagWithValue(command, flag) == StripFrom(command, flag, 1, FALSE, <<>>)

\* build_wan2gp_command, with the options that play a part in the model:
\* --attention, --teacache and the pass-through arguments.
BuildWan2gpCommand(a) ==
    <<"python", "wgp.py", "--process", "queue.json", "--verbose", "1">>
      \o (IF a.attention # "" THEN <<"--attention", a.attention>> ELSE <<>>)
      \o (IF a.teacache # <<>> THEN <<"--teacache", a.teacache[1]>> ELSE <<>>)
      \o a.extra_arg

----------------------------------------------------------------------------
(* run_headless.py: main and _run_once *)

MaxAttempts == 2        \* max_attempts of main
KilledExit == -9        \* what process.wait() returns for a killed child
MaxMinutes == 2         \* the longest a child runs
MaxRuns == 2            \* how many operations work on one Wan2GP root

TeacacheRejected == "unrecognized arguments: --teacache"
AttentionRejected == "attention mode 'sage2'. However it is not installed or supported"
Signatures == {TeacacheRejected, AttentionRejected}
\* The lines a child may print.
Lines == {"Queue completed: 1/1"} \cup Signatures

TeacacheOptions == {<<>>, <<"2.0">>}
ExtraArgs == {<<>>, <<"--teacache", "1.5">>, <<"--teacache", "--fp16">>}
AttentionOptions == {"", "sage2"}
TimeoutMinutes == {0, 1}

NoRunHeadlessInput ==
    [teacache |-> <<>>, extra_arg |-> <<>>, attention |-> "", timeout_minutes |-> 0]

\* A variant of NextRetryCommand that does not look at the log.
NextRetryCommandAnyFailure(command, log_text) ==
    IF InCommand("--teacache", command)
          /\ StripFlagWithValue(command, "--teacache") # command
    THEN <<StripFlagWithValue(command, "--teacache")>>
    ELSE <<>>

\* _next_retry_command: <<the retry command>>, or <<>> for None.
NextRetryCommand(command, log_text) ==
    IF InCommand("--teacache", command) /\ TeacacheRejected \in log_text
          /\ StripFlagWithValue(command, "--teacache") # command
    THEN <<StripFlagWithValue(command, "--teacache")>>
    ELSE <<>>

\* Lines 215-232: the command of the first attempt, adjusted by what the
\* loaded state has learned.
AdjustedCommand(a, state) ==
    LET command == BuildWan2gpCommand(a)
        stripped == IF a.teacache # <<>> /\ IsFlagKnownUnsupported(state, "--teacache")
                    THEN StripFlagWithValue(command, "--teacache")
                    ELSE command
    IN  IF a.attention # "" /\ IsAttentionKnownUnsupported(state, a.attention)
           /\ a.attention # "sdpa"
        THEN [i \in 1..Len(stripped) |->
                 IF i > 1 /\ stripped[i - 1] = "--attention"
                    /\ \A j \in 1..(i - 2) : stripped[j] # "--attention"
                 THEN "sdpa" ELSE stripped[i]]
        ELSE stripped

\* Lines 196-256: the state is loaded, the command built and adjusted.
RunHeadlessStart ==
    /\ rh_pc = "start"
    /\ rh_runs < MaxRuns
    /\ \E tc \in TeacacheOptions, ex \in ExtraArgs, at \in AttentionOptions,
          tm \in TimeoutMinutes :
         LET a == [teacache |-> tc, extra_arg |-> ex, attention |-> at,
                   timeout_minutes |-> tm]
             state == LoadOperatorState(rh_file)
         IN  /\ rh_in' = a
             /\ rh_loaded' = state
             /\ rh_state' = state
             /\ current_command' = AdjustedCommand(a, state)
    /\ state_changed' = FALSE
    /\ attempts' = <<>>
    /\ rh_elapsed' = 0
    /\ rh_log' = {}
    /\ rh_report' = <<>>
    /\ rh_rc' = -1
    /\ rh_clock' = rh_clock + 1
    /\ rh_runs' = rh_runs + 1
    /\ rh_pc' = "running"
    /\ UNCHANGED rh_file
    /\ UNCHANGED notRunHeadless

\* Lines 191-195, 369-379: a path that does not resolve raises, and main ends
\* with 1 and the error object on stderr.
RunHeadlessRaise ==
    /\ rh_pc = "start"
    /\ rh_runs < MaxRuns
    /\ rh_runs' = rh_runs + 1
    /\ rh_clock' = rh_clock + 1
    /\ rh_pc' = "exit"
    /\ rh_rc' = 1
    /\ rh_report' = <<>>
    /\ attempts' = <<>>
    /\ UNCHANGED <<rh_in, rh_file, rh_loaded, rh_state, state_changed, current_command,
                   rh_elapsed, rh_log>>
    /\ UNCHANGED notRunHeadless

\* Lines 266-304: what main does with an attempt that _run_once returned.
AttemptEnd(exit_code, timed_out, attempt_log) ==
    LET attempt_no == Len(attempts) + 1
        retry == NextRetryCommand(current_command, attempt_log)
    IN  /\ attempts' = Append(attempts,
                              [attempt |-> attempt_no, command |-> current_command,
                               exit_code |-> exit_code, timed_out |-> timed_out,
                               log |-> attempt_log])
        /\ IF exit_code = 0 \/ timed_out \/ retry = <<>>
           THEN /\ rh_pc' = "finish"
                /\ UNCHANGED <<rh_state, state_changed, current_command, rh_elapsed>>
           ELSE /\ rh_state' = AppendIncident(
                                   MarkUnsupportedArg(rh_state, "--teacache", rh_clock),
                                   "unsupported_cli_argument", rh_clock)
                /\ state_changed' = TRUE
                /\ current_command' = retry[1]
                /\ IF attempt_no < MaxAttempts
                   THEN rh_pc' = "running" /\ rh_elapsed' = 0
                   ELSE rh_pc' = "finish" /\ UNCHANGED rh_elapsed
        /\ rh_log' = IF rh_pc' = "running" THEN {} ELSE attempt_log
        /\ UNCHANGED <<rh_in, rh_file, rh_loaded, rh_report, rh_rc, rh_clock, rh_runs>>
        /\ UNCHANGED notRunHeadless

\* _run_once blocked in `for line in process.stdout`: a minute passes in
\* which the child prints nothing.
ChildSilent ==
    /\ rh_pc = "running"
    /\ rh_elapsed < MaxMinutes
    /\ rh_elapsed' = rh_elapsed + 1
    /\ UNCHANGED <<rh_in, rh_pc, rh_file, rh_loaded, rh_state, state_changed,
                   current_command, attempts, rh_log, rh_report, rh_rc, rh_clock,
                   rh_runs>>
    /\ UNCHANGED notRunHeadless

\* Lines 160-166: the child prints a line; _run_once records it and looks at
\* the clock, and kills the child when the timeout has passed.
ChildPrints ==
    /\ rh_pc = "running"
    /\ \E line \in Lines :
         IF rh_in.timeout_minutes > 0 /\ rh_elapsed > rh_in.timeout_minutes
         THEN AttemptEnd(KilledExit, TRUE, rh_log \cup ({line} \cap Signatures))
         ELSE /\ rh_log' = rh_log \cup ({line} \cap Signatures)
              /\ UNCHANGED <<rh_in, rh_pc, rh_file, rh_loaded, rh_state, state_changed,
                             current_command, attempts, rh_elapsed, rh_report, rh_rc,
                             rh_clock, rh_runs>>
              /\ UNCHANGED notRunHeadless

\* Lines 160, 168-170: the child exits, its output ends and process.wait()
\* returns its exit code.
ChildExits ==
    /\ rh_pc = "running"
    /\ \E exit_code \in {0, 1} : AttemptEnd(exit_code, FALSE, rh_log)

\* The log of all the attempts.
CombinedLog == UNION {attempts[i].log : i \in 1..Len(attempts)}

\* Lines 306-367: the log is searched for the attention signature, the state
\* saved when it changed, the recommendations recorded, the report printed.
RunHeadlessFinish ==
    /\ rh_pc = "finish"
    /\ \E quality_recommendations \in BOOLEAN :
         LET last == attempts[Len(attempts)]
             learned == IF rh_in.attention # "" /\ AttentionRejected \in CombinedLog
                        THEN AppendIncident(
                                 MarkUnsupportedAttention(rh_state, rh_in.attention, rh_clock),
                                 "unsupported_attention_mode", rh_clock)
                        ELSE rh_state
             changed == state_changed
                          \/ (rh_in.attention # "" /\ AttentionRejected \in CombinedLog)
             final == IF quality_recommendations
                      THEN AppendIncident(learned, "quality_recommendations_generated",
                                          rh_clock)
                      ELSE learned
             status == RunHeadlessStatus(last.exit_code, last.timed_out)
         IN  /\ rh_state' = final
             /\ state_changed' = (changed \/ quality_recommendations)
             /\ rh_file' = IF changed \/ quality_recommendations
                           THEN <<final>> ELSE rh_file
             /\ rh_report' = <<[status |-> status, exit_code |-> last.exit_code,
                                attempts |-> Len(attempts)]>>
             /\ rh_rc' = RunHeadlessExit(status)
    /\ rh_pc' = "exit"
    /\ UNCHANGED <<rh_in, rh_loaded, current_command, attempts, rh_elapsed, rh_log,
                   rh_clock, rh_runs>>
    /\ UNCHANGED notRunHeadless

\* The process has ended; the next operation on the same Wan2GP root starts
\* with fresh locals and the state file as it was left.
RunHeadlessAgain ==
    /\ rh_pc = "exit"
    /\ rh_runs < MaxRuns
    /\ rh_pc' = "start"
    /\ rh_in' = NoRunHeadlessInput
    /\ rh_loaded' = BaseState
    /\ rh_state' = BaseState
    /\ state_changed' = FALSE
    /\ current_command' = <<>>
    /\ attempts' = <<>>
    /\ rh_elapsed' = 0
    /\ rh_log' = {}
    /\ rh_report' = <<>>
    /\ rh_rc' = -1
    /\ UNCHANGED <<rh_file, rh_clock, rh_runs>>
    /\ UNCHANGED notRunHeadless

\* The log files evolve_operator.py may be given.
EvolveLogs ==
    {[given |-> FALSE, exists |-> FALSE, text |-> {}],
     [given |-> TRUE, exists |-> FALSE, text |-> {}],
     [given |-> TRUE, exists |-> TRUE, text |-> {}],
     [given |-> TRUE, exists |-> TRUE, text |-> {TeacacheRejected}],
     [given |-> TRUE, exists |-> TRUE, text |-> {TeacacheRejected, AttentionRejected}]}

\* evolve_operator.py, main lines 158-181 with _ingest_log_if_present: the
\* other writer of the state file.
EvolveOperator ==
    /\ rh_pc = "start"
    /\ rh_runs < MaxRuns
    /\ \E log_file \in EvolveLogs, quality_feedback \in BOOLEAN :
         LET now == rh_clock + 1
             state == LoadOperatorState(rh_file)
             s1 == IF TeacacheRejected \in log_file.text
                   THEN AppendIncident(MarkUnsupportedArg(state, "--teacache", now),
                                       "unsupported_cli_argument", now)
                   ELSE state
             s2 == IF AttentionRejected \in log_file.text
                   THEN AppendIncident(MarkUnsupportedAttention(s1, "sage2", now),
                                       "unsupported_attention_mode", now)
                   ELSE s1
             s3 == IF quality_feedback
                   THEN AppendIncident(s2, "subjective_quality", now)
                   ELSE s2
             updates == log_file.given /\ (~log_file.exists \/ s2 # state)
         IN  rh_file' = IF quality_feedback \/ updates THEN <<s3>> ELSE rh_file
    /\ rh_clock' = rh_clock + 1
    /\ rh_runs' = rh_runs + 1
    /\ UNCHANGED <<rh_in, rh_pc, rh_loaded, rh_state, state_changed, current_command,
                   attempts, rh_elapsed, rh_log, rh_report, rh_rc>>
    /\ UNCHANGED notRunHeadless

----------------------------------------------------------------------------
(* music_generate.py *)

MaxPlanTakes == 3            \* the take counts of a plan go up to MaxPlanTakes

\* _takes_for_shot; the shot's `takes` is <<>> when the key is missing.
TakesForShot(shot_takes, max_takes_per_shot) ==
    LET raw == IF shot_takes = <<>> \/ shot_takes = <<0>> THEN 1 ELSE shot_takes[1]
        planned == Max2(1, raw)
    IN  IF max_takes_per_shot # <<>>
        THEN Min2(planned, Max2(1, max_takes_per_shot[1]))
        ELSE planned

\* Lines 441-442: the status music_generate reads off a run.
RunStatus(outcome) ==
    IF outcome.kind = "report"
    THEN RunHeadlessStatus(outcome.exit_code, outcome.timed_out)
    ELSE IF outcome.kind = "raised" THEN "error"
    ELSE IF RunReturnCode(outcome) # 0 THEN "error" ELSE "success"

\* _quality_score_from_file, in hundredths, on a size in tenths of a megabyte.
HalfMegabyte == 5
TwoMegabytes == 20
SixMegabytes == 60
QualityScoreFromFile(size) ==
    IF size <= HalfMegabyte THEN 15
    ELSE IF size <= TwoMegabytes THEN 35
    ELSE IF size <= SixMegabytes THEN 60
    ELSE 80

\* What _find_latest_mp4 finds in the take's directory: nothing, or a file of
\* some size.
FoundFiles == {<<>>, <<TwoMegabytes>>, <<SixMegabytes + 1>>}

\* The take_report of lines 392-400, before the compose result is looked at.
PlannedTake(n) ==
    [take |-> n, status |-> "planned", error |-> "", video_file |-> <<>>,
     quality_score |-> <<>>, has_video_file |-> FALSE, evolved |-> FALSE]

\* Lines 404-408: the compose step failed.
ComposeFailedTake(n) == [PlannedTake(n) EXCEPT !.status = "error", !.error = "compose_failed"]

\* A variant of RunTake that looks for the video file after a dry run too.
RunTakeDryRunFindsFile(n, outcome, found, file, a) ==
    LET run_status == RunStatus(outcome)
        ran == [PlannedTake(n) EXCEPT !.status = run_status]
    IN  IF run_status = "success"
        THEN [ran EXCEPT !.has_video_file = TRUE,
                         !.video_file = IF found = <<>> THEN <<>> ELSE <<file>>,
                         !.quality_score = IF found = <<>> THEN <<>>
                                           ELSE <<QualityScoreFromFile(found[1])>>]
        ELSE [ran EXCEPT !.evolved = a.evolve_on_failure]

\* Lines 423-490: the take_report after the run, for a run that ended as
\* `outcome` and left the file `found` (<<>> for none) named `file`.
RunTake(n, outcome, found, file, a) ==
    LET run_status == RunStatus(outcome)
        ran == [PlannedTake(n) EXCEPT !.status = run_status]
    IN  IF run_status = "success" /\ ~a.dry_run
        THEN [ran EXCEPT !.has_video_file = TRUE,
                         !.video_file = IF found = <<>> THEN <<>> ELSE <<file>>,
                         !.quality_score = IF found = <<>> THEN <<>>
                                           ELSE <<QualityScoreFromFile(found[1])>>]
        ELSE IF run_status = "success" THEN ran
        ELSE [ran EXCEPT !.evolved = a.evolve_on_failure]

\* Whether lines 455-471 count the take as successful.
CountsAsSuccess(take_report) == take_report.status = "success"

\* A variant of Counted that leaves the takes whose queue could not be
\* composed out of failed_takes.
CountedWithoutComposeFailures(counts, take_report, ran) ==
    [total_takes |-> counts.total_takes + 1,
     successful_takes |-> counts.successful_takes
                            + (IF ran /\ CountsAsSuccess(take_report) THEN 1 ELSE 0),
     failed_takes |-> counts.failed_takes
                            + (IF ran /\ ~CountsAsSuccess(take_report) THEN 1 ELSE 0)]

Counted(counts, take_report, ran) ==
    [total_takes |-> counts.total_takes + 1,
     successful_takes |-> counts.successful_takes
                            + (IF ran /\ CountsAsSuccess(take_report) THEN 1 ELSE 0),
     failed_takes |-> counts.failed_takes
                            + (IF take_report.error = "compose_failed"
                                  \/ (ran /\ ~CountsAsSuccess(take_report)) THEN 1 ELSE 0)]

\* The plans: the `takes` of each shot.
PlanTakes ==
    { <<>>, <<<<2>>>>, <<<<1>>, <<>>>>, <<<<-1>>, <<MaxPlanTakes>>>>,
      <<<<0>>, <<2>>, <<1>>>> }
OptionalCaps == {<<>>, <<0>>, <<2>>}
\* The plan file of one run: any of the model's, or, as the generate stage of
\* music_video.py, a plan of the plan stage: no shot, one shot of two takes,
\* a shot of one take and a shot of two.
PlanTakesGiven ==
    IF pl_pc = "idle" THEN PlanTakes ELSE {<<>>, <<<<2>>>>, <<<<1>>, <<2>>>>}
WanRoots == {"none", "missing", "no wgp.py", "ok"}

\* Lines 323-369: the plan is loaded and cut to --max-shots, the Wan2GP root
\* is checked, the output directories are made.  Whatever raises ends main
\* with 1 before any take is tried.
GenerateStart ==
    /\ gen_pc = "start"
    /\ StageRuns("generate")
    /\ \E pt \in PlanTakesGiven, found \in BOOLEAN, wr \in WanRoots, ms \in OptionalCaps,
          mt \in OptionalCaps, ex \in BOOLEAN, dr \in BOOLEAN, ev \in BOOLEAN :
         LET inp == [plan_found |-> found, plan_takes |-> pt, wan_root |-> wr,
                     max_shots |-> ms, max_takes_per_shot |-> mt,
                     execute_generation |-> ex, dry_run |-> dr,
                     evolve_on_failure |-> ev]
             raises == \/ ~found
                       \/ pt = <<>>
                       \/ (ex /\ wr = "none")
                       \/ wr = "missing"
                       \/ (ex /\ wr = "no wgp.py")
         IN  /\ (~found => pt = <<>>)
             /\ StartedByPipeline =>
                    /\ ex = pl_in.execute_generation
                    /\ dr = (pl_in.execute_generation /\ pl_in.dry_run_generation)
             /\ gen_in' = inp
             /\ IF raises
                THEN /\ gen_pc' = "exit"
                     /\ gen_rc' = 1
                     /\ UNCHANGED gen_shots
                ELSE /\ gen_pc' = "shot"
                     /\ gen_shots' = IF ms = <<>> THEN pt ELSE Prefix(pt, Max2(1, ms[1]))
                     /\ UNCHANGED gen_rc
    /\ UNCHANGED <<gen_shot, gen_takes, take_index, shot_report, shot_reports,
                   gen_counts, gen_manifest>>
    /\ UNCHANGED notGenerate

\* Lines 371-384: the next shot of the loop, its take count, its empty report.
GenerateShotBegin ==
    /\ gen_pc = "shot"
    /\ gen_shot <= Len(gen_shots)
    /\ gen_takes' = TakesForShot(gen_shots[gen_shot], gen_in.max_takes_per_shot)
    /\ shot_report' = <<>>
    /\ take_index' = 1
    /\ gen_pc' = "take"
    /\ UNCHANGED <<gen_in, gen_shots, gen_shot, shot_reports, gen_counts,
                   gen_manifest, gen_rc>>
    /\ UNCHANGED notGenerate

\* (variant: a failed take ends the shot's take loop)
NextTakeIndexStopOnFailure(n, take_report, takes) ==
    IF take_report.status \notin {"planned", "success"} THEN takes + 1 ELSE n + 1

\* `for take_index in range(1, takes + 1)`: the index after take n, whatever
\* became of it (`continue` at line 421, the end of the body at line 491).
NextTakeIndex(n, take_report, takes) == n + 1

\* One iteration of the take loop (lines 385-491): compose, and, with
\* --execute-generation, run; the take_report is appended either way.
GenerateTake ==
    /\ gen_pc = "take"
    /\ take_index <= gen_takes
    /\ \E compose_ok \in BOOLEAN, outcome \in RunOutcomes, found \in FoundFiles :
         LET ran == compose_ok /\ gen_in.execute_generation
             take_report ==
                 IF ~compose_ok THEN ComposeFailedTake(take_index)
                 ELSE IF gen_in.execute_generation
                 THEN RunTake(take_index, outcome, found, gen_shot * 10 + take_index, gen_in)
                 ELSE PlannedTake(take_index)
         IN  /\ shot_report' = Append(shot_report, take_report)
             /\ gen_counts' = Counted(gen_counts, take_report, ran)
             /\ take_index' = NextTakeIndex(take_index, take_report, gen_takes)
    /\ UNCHANGED <<gen_in, gen_pc, gen_shots, gen_shot, gen_takes, shot_reports,
                   gen_manifest, gen_rc>>
    /\ UNCHANGED notGenerate

\* Line 493: the take loop is over, the shot_report is appended.
GenerateShotEnd ==
    /\ gen_pc = "take"
    /\ take_index > gen_takes
    /\ shot_reports' = Append(shot_reports, [shot_id |-> gen_shot, takes |-> shot_report])
    /\ gen_shot' = gen_shot + 1
    /\ gen_pc' = "shot"
    /\ UNCHANGED <<gen_in, gen_shots, gen_takes, take_index, shot_report, gen_counts,
                   gen_manifest, gen_rc>>
    /\ UNCHANGED notGenerate

\* Lines 495-518: the status, the manifest, the return value.
GenerateWrite ==
    /\ gen_pc = "shot"
    /\ gen_shot > Len(gen_shots)
    /\ LET status == IF /\ gen_in.execute_generation
                        /\ gen_counts.successful_takes = 0
                        /\ gen_counts.total_takes > 0
                     THEN "error" ELSE "success"
       IN  /\ gen_manifest' = <<[status |-> status,
                                 execute_generation |-> gen_in.execute_generation,
                                 dry_run |-> gen_in.dry_run,
                                 shots |-> shot_reports,
                                 summary |-> [total_shots |-> Len(shot_reports)]
                                                 @@ gen_counts]>>
           /\ gen_rc' = IF status = "success" THEN 0 ELSE 1
    /\ gen_pc' = "exit"
    /\ UNCHANGED <<gen_in, gen_shots, gen_shot, gen_takes, take_index, shot_report,
                   shot_reports, gen_counts>>
    /\ UNCHANGED notGenerate

----------------------------------------------------------------------------
(* music_video.py *)

\* The exit codes a stage's script may end with.
StageExitCodes == {0, 1, 2}

\* _stage_result: the record of a stage that ran.
StageResult(name, returncode) ==
    [stage |-> name, exit_code |-> returncode, reason |-> "",
     status |-> IF returncode = 0 THEN "success" ELSE "error"]

\* The `error` of the report written when the stage fails.
StageError(name) ==
    CASE name = "analyze" -> "audio_analyze_failed"
      [] name = "plan" -> "music_plan_failed"
      [] name = "generate" -> "music_generate_failed"
      [] name = "assemble" -> "music_assemble_failed"

\* Lines 223-227: why the assembly is skipped, "" when it is not.
AssembleSkippedReason(a) ==
    IF a.skip_assemble THEN "skip_assemble_flag"
    ELSE IF ~a.execute_generation THEN "generation_not_executed"
    ELSE ""

\* (variant: main goes on whatever the stage's exit code)
StageFailedNever(returncode) == FALSE

\* `if <stage>_process.returncode != 0`
StageFailed(returncode) == returncode # 0

\* _run(command) is entered: the stage's script starts.
StageStart(name) ==
    /\ pl_pc = name
    /\ pl_running = ""
    /\ pl_running' = name
    /\ pl_events' = Append(pl_events, [ev |-> "start", stage |-> name, exit_code |-> 0])
    /\ UNCHANGED <<pl_in, pl_pc, stage_reports, pl_report, pl_rc>>
    /\ UNCHANGED notPipeline

\* What _run(command) may return for a stage: any exit code, or, where the
\* stage's script runs in the same state, the value its main returned.
StageReturnCodes(name) ==
    IF name = "generate" /\ gen_pc # "idle"
    THEN IF gen_pc = "exit" THEN {gen_rc} ELSE {}
    ELSE IF name = "assemble" /\ asm_pc # "idle"
    THEN IF asm_pc = "exit" THEN {asm_rc} ELSE {}
    ELSE StageExitCodes

\* _run(command) returns: the stage's result is appended, and on a non-zero
\* exit code the error report is written and main returns 1.
StageExit(name, next) ==
    /\ pl_pc = name
    /\ pl_running = name
    /\ pl_running' = ""
    /\ \E returncode \in StageReturnCodes(name) :
         LET reports == Append(stage_reports, StageResult(name, returncode))
         IN  /\ pl_events' = Append(pl_events,
                                [ev |-> "exit", stage |-> name, exit_code |-> returncode])
             /\ stage_reports' = reports
             /\ IF StageFailed(returncode)
                THEN /\ pl_report' = <<[status |-> "error", error |-> StageError(name),
                                        stages |-> reports]>>
                     /\ pl_rc' = 1
                     /\ pl_pc' = "exit"
                ELSE /\ pl_pc' = next
                     /\ UNCHANGED <<pl_report, pl_rc>>
    /\ UNCHANGED pl_in
    /\ UNCHANGED notPipeline

\* Lines 102-126: the arguments, the audio file, the directories.  What
\* raises here ends main with 1 and no report.
PipelineStart ==
    /\ pl_pc = "start"
    /\ \E au \in BOOLEAN, wr \in BOOLEAN, ex \in BOOLEAN, dr \in BOOLEAN, sk \in BOOLEAN :
         /\ pl_in' = [audio_found |-> au, wan_root |-> wr, execute_generation |-> ex,
                      dry_run_generation |-> dr, skip_assemble |-> sk]
         /\ IF ~au \/ (ex /\ ~wr)
            THEN pl_pc' = "exit" /\ pl_rc' = 1
            ELSE pl_pc' = "analyze" /\ UNCHANGED pl_rc
    /\ UNCHANGED <<pl_running, pl_events, stage_reports, pl_report>>
    /\ UNCHANGED notPipeline

AnalyzeStageStart == StageStart("analyze")       \* line 136
AnalyzeStageExit == StageExit("analyze", "plan")       \* lines 136-148
PlanStageStart == StageStart("plan")             \* line 168
PlanStageExit == StageExit("plan", "generate")         \* lines 168-180
GenerateStageStart == StageStart("generate")     \* line 209
GenerateStageExit == StageExit("generate", "assemble") \* lines 209-221

\* Line 244, reached when nothing says to skip the assembly.
AssembleStageStart ==
    /\ AssembleSkippedReason(pl_in) = ""
    /\ StageStart("assemble")

AssembleStageExit == StageExit("assemble", "report")   \* lines 244-256

\* Lines 257-264: the assembly is skipped and recorded as such.
AssembleStageSkip ==
    /\ pl_pc = "assemble"
    /\ pl_running = ""
    /\ AssembleSkippedReason(pl_in) # ""
    /\ stage_reports' = Append(stage_reports,
                            [stage |-> "assemble", exit_code |-> 0,
                             reason |-> AssembleSkippedReason(pl_in),
                             status |-> "skipped"])
    /\ pl_pc' = "report"
    /\ UNCHANGED <<pl_in, pl_running, pl_events, pl_report, pl_rc>>
    /\ UNCHANGED notPipeline

\* Lines 266-278: the report of a run in which no stage failed.
PipelineReport ==
    /\ pl_pc = "report"
    /\ pl_report' = <<[status |-> "success", error |-> "", stages |-> stage_reports]>>
    /\ pl_rc' = 0
    /\ pl_pc' = "exit"
    /\ UNCHANGED <<pl_in, pl_running, pl_events, stage_reports>>
    /\ UNCHANGED notPipeline

----------------------------------------------------------------------------
(* The planner's inputs *)

MaxHalfSecs == 16            \* durations up to MaxHalfSecs * 0.5 s (+ 0.05 s)

GridBeats(start, step, upto) ==
    IF upto < start THEN <<>>
    ELSE [i \in 1..((upto - start) \div step + 1) |-> start + (i - 1) * step]

Durations ==
    ({n * HalfSec + e : n \in 0..MaxHalfSecs, e \in {0, 50 * Milli}} \ {0})
        \cup {Sec + 4, 5 * Sec + 50 * Milli + 4}

\* <<beats, bpm>>: no beats, one beat, a detector's grid running up to the end
\* of the track, the analyzer's fallback grid, an off-grid list with a
\* negative lead-in, and four beats a second apart, the last 0.00002 s late.
BeatInputs(d) ==
    ({<<>>, <<0>>} \X {0, Bpm(30), Bpm(120), Bpm(300)})
        \cup ({GridBeats(0, HalfSec, d), FallbackBeats(d),
               <<-HalfSec>> \o GridBeats(20 * 1000, 75 * 1000, d),
               <<0, Sec, 2 * Sec, 3 * Sec + 2>>} \X {Bpm(120)})

SectionInputs(d) ==
    { <<>>,
      <<[label |-> "intro", energy |-> "low", start_sec |-> 0, end_sec |-> d]>>,
      <<[label |-> "intro", energy |-> "LOW", start_sec |-> 0, end_sec |-> d \div 4],
        [label |-> "verse", energy |-> "medium", start_sec |-> d \div 4, end_sec |-> d \div 2],
        [label |-> "Chorus", energy |-> "high", start_sec |-> d \div 2,
         end_sec |-> 3 * (d \div 4)]>>,
      <<[label |-> "intro", energy |-> "low", start_sec |-> 0, end_sec |-> d \div 4],
        [label |-> "verse", energy |-> "medium", start_sec |-> d \div 4, end_sec |-> d \div 2],
        [label |-> "bass drop", energy |-> "low", start_sec |-> d \div 2, end_sec |-> d]>> }

ValidAnalyses ==
    UNION { { [has_duration |-> TRUE, duration_seconds |-> d, beats |-> bb[1],
               bpm |-> bb[2], sections |-> ss] :
              bb \in BeatInputs(d), ss \in SectionInputs(d) } : d \in Durations }

\* duration_seconds missing, zero or negative.
InvalidAnalyses ==
    { [has_duration |-> h, duration_seconds |-> d, beats |-> <<0, HalfSec>>,
       bpm |-> Bpm(120), sections |-> <<>>] :
      h \in BOOLEAN, d \in {0, -Sec} }

\* <<min_shot_seconds, max_shot_seconds>>: the defaults, short shots, finer
\* decimals than round(x, 4) keeps, min > max, zeros, a negative minimum.
ShotBounds ==
    { <<2 * Sec, 4 * Sec>>, <<Sec, 3 * HalfSec>>, <<2 * Sec + 4, 4 * Sec - 4>>,
      <<4 * Sec, 2 * Sec>>, <<0, 0>>, <<-Sec, 3 * Sec>> }

\* <<takes_hero, takes_standard, takes_filler>>
TakeCounts == { <<3, 2, 1>>, <<0, -1, 2>> }

Seeds == {42, 7}

ArgsInputs ==
    { [min_shot_seconds |-> mm[1], max_shot_seconds |-> mm[2],
       takes_hero |-> tk[1], takes_standard |-> tk[2], takes_filler |-> tk[3],
       seed |-> sd, theme |-> "neon city dream", brand |-> ""] :
      mm \in ShotBounds, tk \in TakeCounts, sd \in Seeds }

PlanLocalsInit ==
    /\ beats = <<>>
    /\ beat_sec = 0
    /\ rng = 0
    /\ cursor = 0
    /\ shot_index = 1
    /\ shots = <<>>
    /\ swept = <<>>
    /\ run = 1
    /\ first_plan = <<>>
    /\ analysis_found = TRUE
    /\ plan_file = <<>>
    /\ plan_rc = -1

\* music_plan.py is not running.
IdlePlan ==
    /\ analysis = [has_duration |-> FALSE, duration_seconds |-> 0, beats |-> <<>>,
                   bpm |-> 0, sections |-> <<>>]
    /\ args = [min_shot_seconds |-> 0, max_shot_seconds |-> 0, takes_hero |-> 0,
               takes_standard |-> 0, takes_filler |-> 0, seed |-> 0, theme |-> "",
               brand |-> ""]
    /\ pc = "idle"
    /\ PlanLocalsInit

\* music_analyze.py is not running.
IdleAnalyze ==
    /\ an_in = [audio_ok |-> FALSE, probe_ok |-> FALSE, duration |-> 0,
                min_section_seconds |-> 0,
                detector |-> [kind |-> "missing", tempo |-> 0, beat_times |-> <<>>,
                              energy_ok |-> FALSE]]
    /\ an_pc = "idle"
    /\ an_analysis = NoAnalysis
    /\ an_file = <<>>
    /\ an_rc = -1

\* No _best_take call is under way.
IdleBestTake ==
    /\ bt_takes = <<>>
    /\ bt_disk = {}
    /\ bt_pc = "idle"
    /\ bt_result = <<>>

\* main's locals before its first statement.
AssembleLocalsInit ==
    /\ clip_paths = <<>>
    /\ normalized_files = <<>>
    /\ concat_list = <<>>
    /\ commands = <<>>
    /\ temp_dir = "none"
    /\ concat_video = <<>>
    /\ output = <<>>
    /\ asm_rc = -1
    /\ asm_error = ""

\* music_assemble_ffmpeg.py is not running.
NoAssembleInput ==
    [manifest |-> [shots |-> <<>>, clips |-> <<>>], disk |-> {}, max_clips |-> <<>>,
     keep_temp |-> FALSE, preflight |-> "ok", resolution_ok |-> TRUE,
     audio_seconds |-> 0]

IdleAssemble ==
    /\ asm_in = NoAssembleInput
    /\ asm_pc = "idle"
    /\ AssembleLocalsInit

\* main's locals before its first statement.
GenerateLocalsInit ==
    /\ gen_shots = <<>>
    /\ gen_shot = 1
    /\ gen_takes = 0
    /\ take_index = 1
    /\ shot_report = <<>>
    /\ shot_reports = <<>>
    /\ gen_counts = [total_takes |-> 0, successful_takes |-> 0, failed_takes |-> 0]
    /\ gen_manifest = <<>>
    /\ gen_rc = -1

NoGenerateInput ==
    [plan_found |-> TRUE, plan_takes |-> <<>>, wan_root |-> "none", max_shots |-> <<>>,
     max_takes_per_shot |-> <<>>, execute_generation |-> FALSE, dry_run |-> FALSE,
     evolve_on_failure |-> FALSE]

\* music_generate.py is not running.
IdleGenerate ==
    /\ gen_in = NoGenerateInput
    /\ gen_pc = "idle"
    /\ GenerateLocalsInit

\* main's locals before its first statement.
PipelineLocalsInit ==
    /\ pl_running = ""
    /\ pl_events = <<>>
    /\ stage_reports = <<>>
    /\ pl_report = <<>>
    /\ pl_rc = -1

NoPipelineInput ==
    [audio_found |-> TRUE, wan_root |-> FALSE, execute_generation |-> FALSE,
     dry_run_generation |-> FALSE, skip_assemble |-> FALSE, max_shots |-> <<>>]

\* music_video.py is not running.
IdlePipeline ==
    /\ pl_in = NoPipelineInput
    /\ pl_pc = "idle"
    /\ PipelineLocalsInit

RunHeadlessLocalsInit ==
    /\ rh_in = NoRunHeadlessInput
    /\ rh_loaded = BaseState
    /\ rh_state = BaseState
    /\ state_changed = FALSE
    /\ current_command = <<>>
    /\ attempts = <<>>
    /\ rh_elapsed = 0
    /\ rh_log = {}
    /\ rh_report = <<>>
    /\ rh_rc = -1

IdleRunHeadless ==
    /\ rh_pc = "idle"
    /\ rh_file = <<>>
    /\ rh_clock = 0
    /\ rh_runs = 0
    /\ RunHeadlessLocalsInit

InitPlan ==
    /\ analysis \in ValidAnalyses \cup InvalidAnalyses
    /\ args \in ArgsInputs
    /\ pc = "start"
    /\ PlanLocalsInit
    /\ IdleAnalyze
    /\ IdleBestTake
    /\ IdleAssemble
    /\ IdleGenerate
    /\ IdlePipeline
    /\ IdleRunHeadless

Init == InitPlan

Next ==
    \/ BuildShotsStart
    \/ SweepStep
    \/ SweepExit
    \/ TailMergeReturn

Spec == Init /\ [][Next]_vars

InitPlanMain ==
    /\ analysis \in ValidAnalyses \cup InvalidAnalyses
    /\ args \in ArgsInputs
    /\ pc = "main"
    /\ PlanLocalsInit
    /\ IdleAnalyze
    /\ IdleBestTake
    /\ IdleAssemble
    /\ IdleGenerate
    /\ IdlePipeline
    /\ IdleRunHeadless

NextPlanMain ==
    \/ PlanMainStart
    \/ BuildShotsStart
    \/ SweepStep
    \/ SweepExit
    \/ TailMergeReturn
    \/ PlanMainWrite
    \/ PlanMainRaise

SpecPlanMain == InitPlanMain /\ [][NextPlanMain]_vars

NextTwice == Next \/ CallAgain

\* The planner called twice on a third of the argument sets.
InitTwice ==
    /\ InitPlan
    /\ <<args.min_shot_seconds, args.max_shot_seconds>> \in {<<2 * Sec, 4 * Sec>>, <<0, 0>>}

SpecTwice == InitTwice /\ [][NextTwice]_vars

----------------------------------------------------------------------------
(* The analyzer's inputs *)

MaxAnSteps == 13             \* durations up to MaxAnSteps * 3.7 s (+ 1.23456 s)

AnStep == 37 * (Sec \div 10)

\* What ffprobe may report: 0.00004 s, 0.25 s and 1.23456 s past a multiple of
\* 3.7 s, and a zero and a negative duration.
ProbedDurations ==
    {k * AnStep + e : k \in 0..MaxAnSteps, e \in {4, 25 * 1000, 123456}} \cup {0, -Sec}

\* What the beat tracker may answer for a track of d ticks: no beat, three
\* beats, four beats near the start, five beats 0.25 s apart, and a grid of
\* 0.46444 s running past the end of the track after a negative time; with
\* them a tempo of 0, 120 or 300.
DetectorInputs(d) ==
    { [kind |-> k, tempo |-> 0, beat_times |-> <<>>, energy_ok |-> FALSE] :
        k \in {"missing", "raises"} }
    \cup
    { [kind |-> "beats", tempo |-> t, beat_times |-> b, energy_ok |-> e] :
        t \in {0, Bpm(120), Bpm(300)},
        b \in { <<>>, <<0, HalfSec, Sec>>,
                <<10 * 1000, 60 * 1000, 110 * 1000, 160 * 1000>>,
                <<0, 25 * 1000, 50 * 1000, 75 * 1000, Sec>>,
                <<-20 * 1000>> \o GridBeats(0, 46444, d + HalfSec) },
        e \in BOOLEAN }

AnalyzeInputs ==
    UNION { { [audio_ok |-> TRUE, probe_ok |-> TRUE, duration |-> d,
               min_section_seconds |-> m, detector |-> det] :
              m \in {8 * Sec, 3 * Sec, 0}, det \in DetectorInputs(d) } :
            d \in ProbedDurations }
    \cup
    { [audio_ok |-> a, probe_ok |-> p, duration |-> 10 * Sec, min_section_seconds |-> 8 * Sec,
       detector |-> [kind |-> "missing", tempo |-> 0, beat_times |-> <<>>,
                     energy_ok |-> FALSE]] :
      a \in BOOLEAN, p \in BOOLEAN }

InitAnalyze ==
    /\ an_in \in AnalyzeInputs
    /\ an_pc = "start"
    /\ an_analysis = NoAnalysis
    /\ an_file = <<>>
    /\ an_rc = -1
    /\ IdlePlan
    /\ IdleBestTake
    /\ IdleAssemble
    /\ IdleGenerate
    /\ IdlePipeline
    /\ IdleRunHeadless

NextAnalyze ==
    \/ AnalyzeProbe
    \/ AnalyzeDetect
    \/ AnalyzeWrite

SpecAnalyze == InitAnalyze /\ [][NextAnalyze]_vars

----------------------------------------------------------------------------
(* The specifications of _best_take and of the assembly *)

InitBestTake ==
    /\ bt_takes = <<>>
    /\ bt_disk = {}
    /\ bt_pc = "call"
    /\ bt_result = <<>>
    /\ IdlePlan
    /\ IdleAnalyze
    /\ IdleAssemble
    /\ IdleGenerate
    /\ IdlePipeline
    /\ IdleRunHeadless

NextBestTake == BestTakeCall

SpecBestTake == InitBestTake /\ [][NextBestTake]_vars

InitAssemble ==
    /\ asm_in = NoAssembleInput
    /\ asm_pc = "start"
    /\ AssembleLocalsInit
    /\ IdlePlan
    /\ IdleAnalyze
    /\ IdleBestTake
    /\ IdleGenerate
    /\ IdlePipeline
    /\ IdleRunHeadless

NextAssemble ==
    \/ AssembleStart
    \/ AssembleMakeTemp
    \/ AssembleNormalize
    \/ AssembleConcat
    \/ AssembleMux
    \/ AssembleReport
    \/ AssembleFinally

SpecAssemble == InitAssemble /\ [][NextAssemble]_vars

InitGenerate ==
    /\ gen_in = NoGenerateInput
    /\ gen_pc = "start"
    /\ GenerateLocalsInit
    /\ IdlePlan
    /\ IdleAnalyze
    /\ IdleBestTake
    /\ IdleAssemble
    /\ IdlePipeline
    /\ IdleRunHeadless

NextGenerate ==
    \/ GenerateStart
    \/ GenerateShotBegin
    \/ GenerateTake
    \/ GenerateShotEnd
    \/ GenerateWrite

SpecGenerate == InitGenerate /\ [][NextGenerate]_vars

InitPipeline ==
    /\ pl_in = NoPipelineInput
    /\ pl_pc = "start"
    /\ PipelineLocalsInit
    /\ IdlePlan
    /\ IdleAnalyze
    /\ IdleBestTake
    /\ IdleAssemble
    /\ IdleGenerate
    /\ IdleRunHeadless

NextPipeline ==
    \/ PipelineStart
    \/ AnalyzeStageStart
    \/ AnalyzeStageExit
    \/ PlanStageStart
    \/ PlanStageExit
    \/ GenerateStageStart
    \/ GenerateStageExit
    \/ AssembleStageStart
    \/ AssembleStageExit
    \/ AssembleStageSkip
    \/ PipelineReport

SpecPipeline == InitPipeline /\ [][NextPipeline]_vars

\* music_video.py with music_generate.py and music_assemble_ffmpeg.py as the
\* scripts of its generate and assemble stages.
InitVideo ==
    /\ pl_in = NoPipelineInput
    /\ pl_pc = "start"
    /\ PipelineLocalsInit
    /\ gen_in = NoGenerateInput
    /\ gen_pc = "start"
    /\ GenerateLocalsInit
    /\ asm_in = NoAssembleInput
    /\ asm_pc = "start"
    /\ AssembleLocalsInit
    /\ IdlePlan
    /\ IdleAnalyze
    /\ IdleBestTake
    /\ IdleRunHeadless

NextVideo == NextPipeline \/ NextGenerate \/ NextAssemble

SpecVideo == InitVideo /\ [][NextVideo]_vars

\* The state files a Wan2GP root may hold before the first operation.
StateFiles ==
    {<<>>,
     <<[BaseState EXCEPT !.incidents_is_list = FALSE]>>,
     <<[BaseState EXCEPT !.unsupported_args =
            {[key |-> "--teacache", first_seen |-> -1, last_seen |-> 0, count |-> 2]}]>>}

IdleOthers ==
    /\ IdlePlan
    /\ IdleAnalyze
    /\ IdleBestTake
    /\ IdleAssemble
    /\ IdleGenerate
    /\ IdlePipeline

InitRunHeadless ==
    /\ rh_pc = "start"
    /\ rh_file \in StateFiles
    /\ rh_clock = 0
    /\ rh_runs = 0
    /\ RunHeadlessLocalsInit
    /\ IdleOthers

NextRunHeadless ==
    \/ RunHeadlessStart
    \/ RunHeadlessRaise
    \/ ChildSilent
    \/ ChildPrints
    \/ ChildExits
    \/ RunHeadlessFinish
    \/ RunHeadlessAgain
    \/ EvolveOperator

SpecRunHeadless == InitRunHeadless /\ [][NextRunHeadless]_vars

MaxAppends == 4   \* how many append_incident calls follow the load

\* A loaded history of n incidents, the last of them stamped 0.
LoadedIncidents(n) ==
    [i \in 1..n |-> [timestamp |-> i - n, signature |-> "unsupported_cli_argument"]]

\* The states load_operator_state may return: no history, a history that is
\* not a list, histories just below, at and above max_incidents.
LoadedStates ==
    {BaseState, [BaseState EXCEPT !.incidents_is_list = FALSE]}
      \cup {[BaseState EXCEPT !.incidents = LoadedIncidents(n)] :
               n \in {MaxIncidents - 1, MaxIncidents, MaxIncidents + 30}}

IncidentSignatures == {"unsupported_cli_argument", "quality_recommendations_generated"}

\* One call of append_incident on the loaded state, a tick of the clock
\* after the call before.
AppendIncidentCall ==
    /\ rh_pc = "append"
    /\ rh_clock < MaxAppends
    /\ \E signature \in IncidentSignatures :
         rh_state' = AppendIncident(rh_state, signature, rh_clock + 1)
    /\ rh_clock' = rh_clock + 1
    /\ UNCHANGED <<rh_in, rh_pc, rh_file, rh_loaded, state_changed, current_command,
                   attempts, rh_elapsed, rh_log, rh_report, rh_rc, rh_runs>>
    /\ UNCHANGED notRunHeadless

InitIncidents ==
    /\ rh_pc = "append"
    /\ rh_loaded \in LoadedStates
    /\ rh_state = rh_loaded
    /\ rh_file = <<>>
    /\ rh_clock = 0
    /\ rh_runs = 0
    /\ rh_in = NoRunHeadlessInput
    /\ state_changed = FALSE
    /\ current_command = <<>>
    /\ attempts = <<>>
    /\ rh_elapsed = 0
    /\ rh_log = {}
    /\ rh_report = <<>>
    /\ rh_rc = -1
    /\ IdleOthers

NextIncidents == AppendIncidentCall

SpecIncidents == InitIncidents /\ [][NextIncidents]_vars

----------------------------------------------------------------------------
(* Claims about the planner *)

Returned == pc = "done"
Duration == DurationOf(analysis)
Merged == Returned /\ shots # swept

\* min_shot_seconds and max_shot_seconds as the command line's defaults order them.
OrderedBounds == 0 < args.min_shot_seconds /\ args.min_shot_seconds <= args.max_shot_seconds

\* C1: the returned shot list is contiguous and covers the track: it starts at
\* 0, each shot ends where the next starts, and the last ends at D within 1e-3 s.
C1_ContiguousCover ==
    Returned =>
        /\ Len(shots) >= 1
        /\ shots[1].start_sec = 0
        /\ \A i \in 1..(Len(shots) - 1) : shots[i].end_sec = shots[i + 1].start_sec
        /\ Abs(shots[Len(shots)].end_sec - Duration) <= Milli

\* C2: a second call of _build_shots on the same analysis, parameters and seed
\* returns the list the first call returned.
C2_Deterministic ==
    (run = 2 /\ Returned) => shots = first_plan

C2_Witness ==
    /\ run = 2
    /\ Returned
    /\ Len(shots) >= 3
    /\ shots[1].prompt # shots[2].prompt
    /\ shots[2].prompt.camera # shots[3].prompt.camera

C4_NoShotAboveMaxPlusBeat ==
    (Returned /\ OrderedBounds) =>
        \A i \in 1..Len(shots) :
            shots[i].duration_sec <= Round4(args.max_shot_seconds) + beat_sec

\* C4 amended: with max > 0, no returned shot is longer than max_shot_seconds
\* plus one beat interval, except the final shot when the tail merge extended
\* it, and that shot stays below max_shot_seconds + min_shot_seconds (up to
\* the rounding of the recorded values).
C4_AboveMaxOnlyByMerge ==
    (Returned /\ args.max_shot_seconds > 0) =>
        \A i \in 1..Len(shots) :
            \/ shots[i].duration_sec <= Round4(args.max_shot_seconds) + beat_sec
            \/ /\ Merged
               /\ i = Len(shots)
               /\ shots[i].duration_sec
                      < args.max_shot_seconds + args.min_shot_seconds + 2 * RoundUnit

C4_Witness ==
    /\ Merged
    /\ args.max_shot_seconds > 0
    /\ shots[Len(shots)].duration_sec > Round4(args.max_shot_seconds) + beat_sec
    /\ Len(shots) >= 2

----------------------------------------------------------------------------
(* Claims about the best take and the assembly *)

\* The takes of a list that have status success and a video file that is set
\* and exists, by position.
UsableTakes(takes, disk) ==
    {i \in 1..Len(takes) :
        /\ takes[i].status \in {"success", "SUCCESS"}
        /\ takes[i].video_file # <<>>
        /\ \E f \in disk : takes[i].video_file = <<f>>}

\* A score that is not set counts as 0.
Score(take) == IF take.quality_score = <<>> THEN 0 ELSE take.quality_score[1]

\* The first of the usable takes that no usable take outscores.
FirstBest(takes, disk) ==
    CHOOSE i \in UsableTakes(takes, disk) :
        /\ \A j \in UsableTakes(takes, disk) : Score(takes[j]) <= Score(takes[i])
        /\ \A j \in UsableTakes(takes, disk) : j < i => Score(takes[j]) < Score(takes[i])

\* C5: _best_take returns None when no take has status success and a video
\* file that is set and exists; else it returns, among those takes, the first
\* in the list that has the maximum quality_score.
C5_BestTake ==
    bt_pc = "returned" =>
        IF UsableTakes(bt_takes, bt_disk) = {}
        THEN bt_result = <<>>
        ELSE bt_result = <<bt_takes[FirstBest(bt_takes, bt_disk)]>>

\* Two usable takes tie at the maximum behind one the disk has lost, and the
\* earlier of the two is returned.
C5_Witness ==
    /\ bt_pc = "returned"
    /\ Len(bt_takes) = 3
    /\ UsableTakes(bt_takes, bt_disk) = {2, 3}
    /\ bt_takes[1].status = "success" /\ bt_takes[1].video_file = <<2>>
    /\ Score(bt_takes[2]) = Score(bt_takes[3])
    /\ bt_result = <<bt_takes[2]>>

Manifest == asm_in.manifest
\* The shots of the manifest that have a usable take, by position.
UsableShots == {i \in 1..Len(Manifest.shots) :
                   UsableTakes(Manifest.shots[i].takes, asm_in.disk) # {}}
\* The k-th of them.
KthUsableShot(k) ==
    CHOOSE i \in UsableShots : Cardinality({j \in UsableShots : j <= i}) = k
BestFileOfShot(i) ==
    LET takes == Manifest.shots[i].takes
    IN  takes[FirstBest(takes, asm_in.disk)].video_file[1]
Selected == asm_pc \notin {"idle", "start"} /\ asm_in.preflight = "ok"

\* C6: without --max-clips and with a usable take in some shot, the clip list
\* is the best take's file of every shot that has a usable take, one each, in
\* the manifest's order; the shots without one add nothing and do not fail the
\* assembly; the normalized clips are listed for concatenation in that order.
C6_OneBestClipPerUsableShot ==
    (Selected /\ asm_in.max_clips = <<>> /\ UsableShots # {}) =>
        /\ Len(clip_paths) = Cardinality(UsableShots)
        /\ \A k \in 1..Len(clip_paths) : clip_paths[k] = BestFileOfShot(KthUsableShot(k))
        /\ asm_error # "No successful clips found in manifest."
        /\ \A k \in 1..Len(normalized_files) :
              normalized_files[k] = [name |-> k, source |-> clip_paths[k]]
        /\ asm_pc \in {"mux", "report"} =>
              /\ concat_list = [k \in 1..Len(clip_paths) |-> k]
              /\ Len(normalized_files) = Len(clip_paths)
              /\ concat_video = Concatenated(normalized_files, 1)

\* Three shots, the middle one without a usable take: two clips are muxed.
C6_Witness ==
    /\ asm_pc = "report"
    /\ asm_in.max_clips = <<>>
    /\ Len(Manifest.shots) = 3
    /\ UsableShots = {1, 3}
    /\ Len(Manifest.shots[2].takes) > 0
    /\ Len(Manifest.shots[1].takes) = 3
    /\ concat_list = <<1, 2>>
    /\ clip_paths[1] # clip_paths[2]

\* The assembly has failed without running a command or writing an output.
FailedBeforeAnyCommand ==
    /\ asm_pc = "exit"
    /\ asm_rc = 1
    /\ commands = <<>>
    /\ output = <<>>

\* C7 as stated: the assembly fails, runs no normalize, concat or mux command
\* and writes no output video whenever no shot of the manifest has a usable take.
C7_FailsWithoutUsableTake ==
    (asm_pc \notin {"idle", "start"} /\ UsableShots = {}) => FailedBeforeAnyCommand

\* C7 amended: ... whenever no shot of the manifest has a usable take and the
\* manifest's top-level clips list names no existing file.
C7_FailsWithoutUsableTakeOrListedClip ==
    (/\ asm_pc \notin {"idle", "start"}
     /\ UsableShots = {}
     /\ \A k \in 1..Len(Manifest.clips) : Manifest.clips[k] \notin asm_in.disk)
        => FailedBeforeAnyCommand

\* Shots with takes, none of them usable, the listed clips gone, the tools in
\* place: the assembly has failed on the empty clip list.
C7_Witness ==
    /\ FailedBeforeAnyCommand
    /\ asm_in.preflight = "ok"
    /\ Len(Manifest.shots) = 2
    /\ \A i \in 1..2 : Len(Manifest.shots[i].takes) > 0
    /\ UsableShots = {}
    /\ Manifest.clips # <<>>
    /\ asm_error = "No successful clips found in manifest."

\* C8: for an audio of A seconds and a concatenated video of V seconds,
\* 0 < V < A, the muxed output lasts A seconds, its video is the concatenated
\* video repeated from its start, and all A seconds of the audio are in it.
C8_MuxDurationLaw ==
    (output # <<>> /\ 0 < Len(concat_video) /\ Len(concat_video) < asm_in.audio_seconds) =>
        /\ output[1].seconds = asm_in.audio_seconds
        /\ output[1].audio_seconds = asm_in.audio_seconds
        /\ Len(output[1].video) = asm_in.audio_seconds
        /\ \A t \in 1..asm_in.audio_seconds :
              output[1].video[t] = concat_video[((t - 1) % Len(concat_video)) + 1]

\* A video of 3 s under an audio of 7 s: the output shows it twice and a third.
C8_Witness ==
    /\ output # <<>>
    /\ Len(concat_video) = 3
    /\ asm_in.audio_seconds = MaxAudioSec
    /\ Len(output[1].video) = 7
    /\ output[1].video[7] = concat_video[1]

----------------------------------------------------------------------------
(* Claims about the analyzer *)

Analyzed == an_pc = "write"
Sections == an_analysis.sections

\* The sections are ordered, non-overlapping and gap-free from 0.
SectionsChained ==
    /\ Len(Sections) >= 1
    /\ Sections[1].start_sec = 0
    /\ \A i \in 1..(Len(Sections) - 1) : Sections[i].end_sec = Sections[i + 1].start_sec

\* C9 as stated: _build_sections returns a non-empty, ordered, gap-free list of
\* sections with end_sec > start_sec each, whose last end_sec is D exactly.
C9_SectionsCoverExactly ==
    Analyzed =>
        /\ SectionsChained
        /\ \A i \in 1..Len(Sections) : Sections[i].end_sec > Sections[i].start_sec
        /\ Sections[Len(Sections)].end_sec = an_in.duration

\* C9 amended: the list is non-empty, ordered and gap-free from 0, and its
\* last end_sec is D rounded to 4 decimals; every end_sec > start_sec when
\* that rounded duration is positive.
C9_SectionsCoverRounded ==
    Analyzed =>
        /\ SectionsChained
        /\ Sections[Len(Sections)].end_sec = Round4(an_in.duration)
        /\ Round4(an_in.duration) > 0 =>
               \A i \in 1..Len(Sections) : Sections[i].end_sec > Sections[i].start_sec

C9_Witness ==
    /\ Analyzed
    /\ Len(Sections) >= 3
    /\ an_in.duration % RoundUnit # 0
    /\ an_analysis.backend = "librosa"
    /\ Len(an_analysis.warnings) = 0

\* The detector is missing, raises, or finds fewer than 4 beats inside the track.
DetectorUnusable ==
    \/ an_in.detector.kind # "beats"
    \/ ~an_in.detector.energy_ok
    \/ Cardinality({i \in 1..Len(an_in.detector.beat_times) :
           /\ an_in.detector.beat_times[i] >= 0
           /\ an_in.detector.beat_times[i] <= an_in.duration}) < 4

\* C10: without a usable detector the analysis has bpm 120 and the beats
\* i * 0.5 s for i = 0 .. max(1, floor(D / 0.5)) - 1: not empty, strictly
\* ascending, 0.5 s apart, from 0, all within [0, D].
C10_FallbackGrid ==
    (Analyzed /\ DetectorUnusable) =>
        LET bs == an_analysis.beats
            n == IF an_in.duration \div HalfSec >= 1 THEN an_in.duration \div HalfSec ELSE 1
        IN  /\ an_analysis.bpm = 120 * 1000
            /\ Len(bs) = n
            /\ \A i \in 1..n : bs[i] = (i - 1) * HalfSec
            /\ bs[1] = 0
            /\ \A i \in 1..(n - 1) : bs[i + 1] - bs[i] = (60 * Sec) \div 120
            /\ \A i \in 1..n : 0 <= bs[i] /\ bs[i] <= an_in.duration

C10_Witness ==
    /\ Analyzed
    /\ an_in.detector.kind = "beats"
    /\ an_in.detector.energy_ok
    /\ Len(an_in.detector.beat_times) = 3
    /\ Len(an_analysis.beats) >= 4

----------------------------------------------------------------------------
(* Claims about the generation *)

\* main has written the manifest.
Generated == gen_pc = "exit" /\ gen_manifest # <<>>

ManifestShots == gen_manifest[1].shots

\* The Take records of the written manifest.
ManifestTakes ==
    UNION { { ManifestShots[i].takes[j] : j \in 1..Len(ManifestShots[i].takes) } :
              i \in 1..Len(ManifestShots) }

\* The takes the counters of the summary have seen.
SumOfTakes(reports) ==
    LET RECURSIVE Sum(_)
        Sum(i) == IF i = 0 THEN 0 ELSE Sum(i - 1) + Len(reports[i].takes)
    IN  Sum(Len(reports))

\* C11: every take attempt leaves exactly one Take record: while a shot is
\* being worked on its list has one record per take tried, and once main has
\* got past its prelude it exits with the manifest written, one shot report
\* per processed shot, and in each exactly _takes_for_shot(shot) records, in
\* take order, whatever failed on the way.
C11_OneRecordPerTake ==
    /\ gen_pc = "take" => Len(shot_report) = take_index - 1
    /\ (gen_pc = "exit" /\ gen_shots # <<>>) =>
          /\ gen_manifest # <<>>
          /\ Len(ManifestShots) = Len(gen_shots)
          /\ \A i \in 1..Len(gen_shots) :
                /\ Len(ManifestShots[i].takes)
                      = TakesForShot(gen_shots[i], gen_in.max_takes_per_shot)
                /\ \A j \in 1..Len(ManifestShots[i].takes) :
                      ManifestShots[i].takes[j].take = j
          /\ gen_manifest[1].summary.total_takes = SumOfTakes(ManifestShots)

\* A take that failed is followed by another take of its shot and by another shot.
C11_Witness ==
    /\ Generated
    /\ \E i \in 1..(Len(ManifestShots) - 1) :
          /\ Len(ManifestShots[i].takes) >= 2
          /\ ManifestShots[i].takes[1].status \in {"error", "timeout"}
          /\ Len(ManifestShots[i + 1].takes) >= 1
    /\ \E t \in ManifestTakes : t.error = "compose_failed"
    /\ \E t \in ManifestTakes : t.status = "timeout"

\* C12 as stated: in an executed run that is not a dry run, every Take record
\* with status success carries a video file.
C12_SuccessHasVideoFile ==
    (Generated /\ gen_in.execute_generation /\ ~gen_in.dry_run) =>
        \A t \in ManifestTakes : t.status = "success" => t.video_file # <<>>

\* C13 as stated: every Take record of the manifest has status planned,
\* success or error.
C13_StatusIsPlannedSuccessOrError ==
    Generated => \A t \in ManifestTakes : t.status \in {"planned", "success", "error"}

----------------------------------------------------------------------------
(* Claims about the temporary directory of the assembly *)

\* C17: when main of the assembly has ended and had made its temporary
\* directory (it had, if any ffmpeg command ran), the directory is gone,
\* after a success as after a failed normalize, concat or mux; with
\* --keep-temp it is still there.
C17_TempDirRemovedUnlessKept ==
    asm_pc = "exit" =>
        /\ commands # <<>> => temp_dir # "none"
        /\ temp_dir # "none" =>
              temp_dir = (IF asm_in.keep_temp THEN "present" ELSE "removed")

\* A clip was normalized, a later command failed, the directory is gone.
C17_Witness ==
    /\ asm_pc = "exit"
    /\ asm_rc = 1
    /\ Len(normalized_files) >= 1
    /\ Len(commands) > Len(normalized_files)
    /\ ~asm_in.keep_temp
    /\ temp_dir = "removed"

----------------------------------------------------------------------------
(* Claims about the analyzer's bpm, backend and failures *)

\* C14 as stated: the bpm of every analysis lies in [40, 220].
C14_BpmInPlausibleRange ==
    Analyzed => (Bpm(40) <= an_analysis.bpm /\ an_analysis.bpm <= Bpm(220))

\* C15 as stated: when the detector is missing, raises, or leaves fewer than
\* 4 beats, so that the beats are the fallback grid, the backend tag is the
\* fallback's.
C15_FallbackGridHasFallbackBackend ==
    (Analyzed /\ DetectorUnusable) => an_analysis.backend = "ffprobe-fallback"

\* The probe returned a positive duration.
Probed == an_in.audio_ok /\ an_in.probe_ok /\ an_in.duration > 0

\* C16: after a probe with a positive duration main ends with 0 and a written
\* analysis of status success with at least one beat and one section, and
\* with a warning when the detector was missing, raised or left too few
\* beats; after a failed probe or a duration <= 0 it ends with 1 and no file.
C16_OnlyProbeFailureIsFatal ==
    an_pc = "exit" =>
        IF Probed
        THEN /\ an_rc = 0
             /\ an_file # <<>>
             /\ an_file[1].status = "success"
             /\ Len(an_file[1].beats) >= 1
             /\ Len(an_file[1].sections) >= 1
             /\ DetectorUnusable => Len(an_file[1].warnings) >= 1
        ELSE /\ an_rc = 1
             /\ an_file = <<>>

\* The detector raised after a good probe, and the analysis was written.
C16_Witness ==
    /\ an_pc = "exit"
    /\ Probed
    /\ an_in.detector.kind = "raises"
    /\ an_rc = 0
    /\ Len(an_file[1].beats) >= 4
    /\ an_file[1].backend = "ffprobe-fallback"

----------------------------------------------------------------------------
(* Claims about the pipeline *)

StageOrder == <<"analyze", "plan", "generate", "assemble">>

\* The stage that exited with a non-zero code, "" when none did.
FailedStage ==
    IF pl_events # <<>> /\ pl_events[Len(pl_events)].ev = "exit"
                        /\ pl_events[Len(pl_events)].exit_code # 0
    THEN pl_events[Len(pl_events)].stage
    ELSE ""

\* C18: the stages start and exit one after the other in the order analyze,
\* plan, generate, assemble, at most one running at a time; a stage starts
\* only after the stage before it exited with 0; and once a stage has exited
\* with another code, main ends with 1 and a report of status error whose
\* error names that stage and whose stages are those that ran, in order, the
\* failed one last.
C18_StagesInOrderStopAtFailure ==
    /\ Len(pl_events) <= 2 * Len(StageOrder)
    /\ \A k \in 1..Len(pl_events) :
          /\ pl_events[k].stage = StageOrder[(k + 1) \div 2]
          /\ pl_events[k].ev = (IF k % 2 = 1 THEN "start" ELSE "exit")
          /\ (k % 2 = 1 /\ k > 1) => pl_events[k - 1].exit_code = 0
    /\ pl_running = (IF Len(pl_events) % 2 = 1
                     THEN StageOrder[(Len(pl_events) + 1) \div 2] ELSE "")
    /\ FailedStage # "" =>
          /\ pl_pc = "exit"
          /\ pl_rc = 1
          /\ pl_report # <<>>
          /\ pl_report[1].status = "error"
          /\ pl_report[1].error =
                (CASE FailedStage = "analyze" -> "audio_analyze_failed"
                   [] FailedStage = "plan" -> "music_plan_failed"
                   [] FailedStage = "generate" -> "music_generate_failed"
                   [] FailedStage = "assemble" -> "music_assemble_failed")
          /\ Len(pl_report[1].stages) = Len(pl_events) \div 2
          /\ \A i \in 1..Len(pl_report[1].stages) :
                /\ pl_report[1].stages[i].stage = StageOrder[i]
                /\ pl_report[1].stages[i].exit_code = pl_events[2 * i].exit_code
                /\ pl_report[1].stages[i].status
                      = (IF i = Len(pl_report[1].stages) THEN "error" ELSE "success")

\* Analyze and plan exited with 0, generate failed.
C18_Witness ==
    /\ pl_pc = "exit"
    /\ FailedStage = "generate"
    /\ Len(pl_events) = 6
    /\ Len(pl_report[1].stages) = 3

----------------------------------------------------------------------------
(* Claims about the planner's failure and its shot classes *)

\* C19: with an analysis whose duration_seconds is missing, zero or negative
\* the planner ends with 1 and no plan file, which is how _build_shots alone
\* fails; with a positive duration (and the analysis file there) it ends with
\* 0 and the plan written.
C19_FailsOnlyWithoutPositiveDuration ==
    /\ pc = "error" => (~analysis.has_duration \/ analysis.duration_seconds <= 0)
    /\ (pc = "exit" /\ analysis_found) =>
          IF analysis.has_duration /\ analysis.duration_seconds > 0
          THEN plan_rc = 0 /\ plan_file # <<>>
          ELSE plan_rc = 1 /\ plan_file = <<>>

\* The analysis file has a zero or negative duration_seconds, main has failed.
C19_Witness ==
    /\ pc = "exit"
    /\ analysis_found
    /\ analysis.has_duration
    /\ analysis.duration_seconds <= 0
    /\ plan_rc = 1
    /\ plan_file = <<>>


\* The take count configured for a priority.
ConfiguredTakes(priority) ==
    CASE priority = "hero" -> args.takes_hero
      [] priority = "standard" -> args.takes_standard
      [] priority = "filler" -> args.takes_filler

\* C20: of the shots built so far the first is hero; a later one is hero when
\* its section's label has "chorus" or "drop" in it (in any case of letters),
\* else filler when the section's energy is low, else standard; and its
\* takes are the count configured for its priority, or 1 when that is less.
C20_PriorityAndTakes ==
    \A i \in 1..Len(shots) :
        LET shot == shots[i]
            chorus_like == shot.section \in {"chorus", "Chorus", "pre-chorus",
                                             "drop", "bass drop"}
            low == shot.energy \in {"low", "LOW"}
        IN  /\ shot.priority = (IF shot.id = 1 THEN "hero"
                                ELSE IF chorus_like THEN "hero"
                                ELSE IF low THEN "filler"
                                ELSE "standard")
            /\ shot.takes >= 1
            /\ shot.takes = (IF ConfiguredTakes(shot.priority) >= 1
                             THEN ConfiguredTakes(shot.priority) ELSE 1)

\* A returned plan with a later shot in a low-energy drop, a filler and a
\* standard shot, under take counts below 1.
C20_Witness ==
    /\ Returned
    /\ args.takes_hero < 1
    /\ \E i \in 2..Len(shots) :
          /\ shots[i].section = "bass drop"
          /\ shots[i].energy = "low"
          /\ shots[i].priority = "hero"
          /\ shots[i].takes = 1
    /\ \E i \in 1..Len(shots) : shots[i].priority = "filler"
    /\ \E i \in 1..Len(shots) : shots[i].priority = "standard" /\ shots[i].takes = 1

----------------------------------------------------------------------------
(* Claims about the sweep: snapping, the tail merge, progress *)

\* The sweep is about to build a shot at the cursor.
Sweeping == pc = "sweep" /\ cursor < Duration - LoopSlackMilli * Milli

\* target_end of the shot about to be built (lines 219-227).
TargetEnd ==
    LET section == FindSectionAt(cursor, analysis.sections)
        shot_kind == ShotType(section.label, section.energy, shot_index)
        raw_duration == BeatsPerShot(shot_kind) * beat_sec
    IN  cursor + Max2(args.min_shot_seconds, Min2(args.max_shot_seconds, raw_duration))

\* C21 as stated: with beats, the snapped end of the shot about to be built is
\* a beat at or after target_end, the first such beat, and so never earlier
\* than target_end.
C21_SnapIsForward ==
    (Sweeping /\ beats # <<>>) =>
        LET snapped_end == SnapForward(TargetEnd, beats)
        IN  /\ snapped_end >= TargetEnd
            /\ \E i \in 1..Len(beats) :
                  /\ beats[i] = snapped_end
                  /\ \A j \in 1..(i - 1) : beats[j] < TargetEnd

\* C22: _build_shots returns the swept list as it is unless it has two shots
\* or more and the last one's duration_sec is below min_shot_seconds; then it
\* returns the list without its last shot, the new last shot ending where the
\* dropped one ended, with duration_sec = end_sec - start_sec and everything
\* else (id, start_sec, ...) as the sweep left it, like all shots before it.
C22_TailMerge ==
    Returned =>
        LET n == Len(swept)
        IN  IF n >= 2 /\ swept[n].duration_sec < args.min_shot_seconds
            THEN /\ Len(shots) = n - 1
                 /\ \A i \in 1..(n - 2) : shots[i] = swept[i]
                 /\ shots[n - 1].end_sec = swept[n].end_sec
                 /\ shots[n - 1].duration_sec = shots[n - 1].end_sec - shots[n - 1].start_sec
                 /\ [shots[n - 1] EXCEPT !.end_sec = 0, !.duration_sec = 0]
                       = [swept[n - 1] EXCEPT !.end_sec = 0, !.duration_sec = 0]
            ELSE shots = swept

\* A plan of three shots or more lost its short last shot.
C22_Witness ==
    /\ Returned
    /\ Len(swept) >= 3
    /\ Len(shots) = Len(swept) - 1
    /\ swept[Len(swept)].duration_sec > 0
    /\ shots[Len(shots)].duration_sec > swept[Len(shots)].duration_sec

\* C26 as stated: every iteration of the sweep moves the cursor strictly
\* forward and not past D, the sweep goes on only while the cursor is below
\* D - 0.1, and every shot it emits has end_sec > start_sec.
C26_SweepAdvances ==
    /\ pc \in {"sweep", "tail", "done"} =>
          /\ 0 <= cursor /\ cursor <= Max2(0, Duration)
          /\ \A i \in 1..Len(swept) : swept[i].end_sec > swept[i].start_sec
          /\ pc = "sweep" =>
                /\ \A i \in 1..Len(shots) : shots[i].end_sec > shots[i].start_sec
                /\ shots # <<>> => Round4(cursor) = shots[Len(shots)].end_sec
                /\ Len(shots) = shot_index - 1
    /\ pc \in {"tail", "done"} => cursor >= Duration - LoopSlackMilli * Milli

----------------------------------------------------------------------------
(* Claims about the sections' spans *)

\* max(2.0, min_section_seconds)
MinSpan == IF an_in.min_section_seconds > 2 * Sec THEN an_in.min_section_seconds ELSE 2 * Sec

\* The boundaries _build_sections has kept for the analysis, in ticks * Fine.
Cleaned == CleanedBoundaries(an_in.duration, an_analysis.beats, an_in.min_section_seconds)

----------------------------------------------------------------------------
(* Claims about the manifest's counters *)

\* The places of the Take records in the written manifest.
TakeSlots ==
    UNION { { <<i, j>> : j \in 1..Len(ManifestShots[i].takes) } :
              i \in 1..Len(ManifestShots) }

TakeAt(slot) == ManifestShots[slot[1]].takes[slot[2]]

\* C27: in every manifest, summary.total_takes is the number of Take records,
\* summary.successful_takes the number of them with status success, and
\* successful_takes + failed_takes the number of them whose status is not
\* planned.
C27_SummaryCountsTakes ==
    Generated =>
        LET summary == gen_manifest[1].summary
        IN  /\ summary.total_takes = Cardinality(TakeSlots)
            /\ summary.successful_takes
                  = Cardinality({s \in TakeSlots : TakeAt(s).status = "success"})
            /\ summary.successful_takes + summary.failed_takes
                  = Cardinality({s \in TakeSlots : TakeAt(s).status # "planned"})

\* A manifest with a successful take, a take that ran and failed, and a take
\* whose queue could not be composed.
C27_Witness ==
    /\ Generated
    /\ \E s \in TakeSlots : TakeAt(s).status = "success"
    /\ \E s \in TakeSlots : TakeAt(s).error = "compose_failed"
    /\ \E s \in TakeSlots : TakeAt(s).status = "timeout"
    /\ gen_manifest[1].summary.failed_takes >= 2


----------------------------------------------------------------------------
(* Claims about run_headless.py: the timeout, the retry, the learned state *)

Reported == rh_pc = "exit" /\ rh_report # <<>>

\* C24 as stated: with a timeout of N > 0 minutes, an attempt that is still
\* running after N minutes is killed and the run ends with the timeout
\* outcome (status timeout, exit code 124, no retry), also when the child
\* prints nothing: no run whose last attempt ran for more than N minutes ends
\* otherwise.
C24_TimeoutEndsTheRun ==
    (Reported /\ rh_in.timeout_minutes > 0 /\ rh_elapsed > rh_in.timeout_minutes) =>
        /\ attempts[Len(attempts)].timed_out
        /\ rh_report[1].status = "timeout"
        /\ rh_rc = 124


\* The places of the tokens of a command that are neither --teacache nor its
\* value.
KeptTokens(command) ==
    {i \in 1..Len(command) :
        /\ command[i] # "--teacache"
        /\ ~(i > 1 /\ command[i - 1] = "--teacache" /\ ~StartsWithDashes(command[i]))}

\* `retried` is `command` with --teacache and its value removed.
IsWithoutTeacache(retried, command) ==
    /\ Len(retried) = Cardinality(KeptTokens(command))
    /\ \A i \in KeptTokens(command) :
          retried[Cardinality({j \in KeptTokens(command) : j <= i})] = command[i]

\* C29: run_headless makes at most two attempts, and a second one only if the
\* first exited non-zero without timing out, its command contained --teacache
\* and its log held 'unrecognized arguments: --teacache'; the second command
\* is the first with --teacache and its value removed.  A first attempt that
\* succeeded or timed out is never retried.
C29_OneRetryForTeacache ==
    /\ Len(attempts) <= 2
    /\ (Len(attempts) = 2 \/ (Len(attempts) = 1 /\ rh_pc = "running")) =>
          LET first == attempts[1]
              second == IF Len(attempts) = 2 THEN attempts[2].command
                        ELSE current_command
          IN  /\ first.exit_code # 0
              /\ ~first.timed_out
              /\ InCommand("--teacache", first.command)
              /\ TeacacheRejected \in first.log
              /\ IsWithoutTeacache(second, first.command)
    /\ Reported => rh_report[1].attempts = Len(attempts)

\* A run that was given --teacache twice, once through --extra-arg, was
\* rejected and succeeded at the second attempt.
C29_Witness ==
    /\ Reported
    /\ Len(attempts) = 2
    /\ rh_in.teacache # <<>> /\ rh_in.extra_arg # <<>>
    /\ Len(attempts[1].command) - Len(attempts[2].command) >= 3
    /\ attempts[2].exit_code = 0


\* The entry of --teacache in the state file, <<>> when there is none.
TeacacheMark(file) ==
    LET marks == {e \in LoadOperatorState(file).unsupported_args : e.key = "--teacache"}
    IN  IF marks = {} THEN <<>> ELSE <<CHOOSE e \in marks : TRUE>>

GivenTeacache(a) == a.teacache # <<>> \/ InCommand("--teacache", a.extra_arg)

\* The invocation that retried because --teacache was rejected leaves the
\* flag marked in the saved state.
RetryIsSaved ==
    (Reported /\ Len(attempts) = 2) => TeacacheMark(rh_file) # <<>>

\* No operation removes the mark; its count only grows and its first_seen
\* stays.
MarkIsKept ==
    TeacacheMark(rh_file) # <<>> =>
        /\ TeacacheMark(rh_file') # <<>>
        /\ TeacacheMark(rh_file')[1].count >= TeacacheMark(rh_file)[1].count
        /\ TeacacheMark(rh_file')[1].first_seen = TeacacheMark(rh_file)[1].first_seen

\* An invocation given --teacache on a root whose state marks the flag starts
\* its first attempt without it.
MarkedFlagIsStripped ==
    (rh_pc = "running" /\ attempts = <<>> /\ GivenTeacache(rh_in)
       /\ IsFlagKnownUnsupported(rh_loaded, "--teacache")) =>
        ~InCommand("--teacache", current_command)

\* C30 as stated: once an invocation has retried because --teacache was
\* rejected, the saved state marks --teacache as unsupported, no later
\* operation removes the mark (its count only grows, its first_seen stays),
\* and every later run_headless invocation on the same root that is given
\* --teacache strips it from the command before the first attempt.
C30_LearnedFlagStaysStripped ==
    [][RetryIsSaved' /\ MarkIsKept /\ MarkedFlagIsStripped']_vars


----------------------------------------------------------------------------
(* Claims about the incident history *)

\* What the loaded state holds as its history.
LoadedHistory ==
    IF rh_loaded.incidents_is_list THEN rh_loaded.incidents ELSE <<>>

\* C25: the incident history is bounded: after any sequence of
\* append_incident calls from any loaded state, `incidents` is a list of at
\* most 100 entries, the most recently appended ones, in the order they were
\* appended.
C25_IncidentsBounded ==
    (rh_pc = "append" /\ rh_clock >= 1) =>
        LET incidents == rh_state.incidents
            all == Len(LoadedHistory) + rh_clock
        IN  /\ rh_state.incidents_is_list
            /\ Len(incidents) <= MaxIncidents
            /\ Len(incidents) = Min2(MaxIncidents, all)
            /\ \A i \in 1..Len(incidents) :
                  LET timestamp == rh_clock - Len(incidents) + i
                  IN  /\ incidents[i].timestamp = timestamp
                      /\ timestamp <= 0 =>
                            incidents[i] = LoadedHistory[Len(LoadedHistory) + timestamp]

\* Three appends to a history of 99: the two oldest entries are gone, the
\* three new ones are the last.
C25_Witness ==
    /\ rh_pc = "append"
    /\ Len(LoadedHistory) = MaxIncidents - 1
    /\ rh_clock = 3
    /\ Len(rh_state.incidents) = MaxIncidents
    /\ rh_state.incidents[1] = LoadedHistory[3]
    /\ rh_state.incidents[MaxIncidents].timestamp = 3


----------------------------------------------------------------------------
(* Claims about a dry run of the whole pipeline *)

DryRunToAssemble ==
    /\ pl_in.execute_generation
    /\ pl_in.dry_run_generation
    /\ ~pl_in.skip_assemble

GenerateStageSucceeded ==
    /\ Len(stage_reports) >= 3
    /\ stage_reports[3].stage = "generate"
    /\ stage_reports[3].exit_code = 0

\* C28: a pipeline run with --execute-generation and --dry-run-generation and
\* without --skip-assemble never ends with status success: the dry-run takes
\* are counted successful but carry no video_file, so the assembly is
\* started, finds no usable clip, and the pipeline ends with error
\* music_assemble_failed.
C28_DryRunNeverSucceeds ==
    (pl_pc = "exit" /\ DryRunToAssemble) =>
        /\ pl_rc = 1
        /\ pl_report # <<>> => pl_report[1].status = "error"
        /\ GenerateStageSucceeded =>
              /\ \A s \in TakeSlots :
                    /\ TakeAt(s).video_file = <<>>
                    /\ TakeAt(s).status = "success" =>
                          gen_manifest[1].summary.successful_takes >= 1
              /\ Len(stage_reports) = 4
              /\ stage_reports[4].stage = "assemble"
              /\ stage_reports[4].exit_code # 0
              /\ clip_paths = <<>>
              /\ pl_report # <<>>
              /\ pl_report[1].error = "music_assemble_failed"

\* A dry run whose takes all counted as successful and whose assembly found
\* no clip.
C28_Witness ==
    /\ pl_pc = "exit"
    /\ DryRunToAssemble
    /\ GenerateStageSucceeded
    /\ gen_manifest[1].summary.successful_takes = 3
    /\ gen_manifest[1].summary.failed_takes = 0
    /\ asm_error = "No successful clips found in manifest."
    /\ pl_report[1].error = "music_assemble_failed"

====
